---------------------------- MODULE Spec2Model ----------------------------
(***************************************************************************)
(* Guest-list / contact name matching (src/src/logic.py) and the review    *)
(* flow of the host application (src/src/app.py).                          *)
(*                                                                         *)
(* A text is a sequence of characters; a character is a one-character      *)
(* string for ASCII and the letter's name for a Hebrew letter.  Scores are *)
(* exact rationals [num, den]: the library ratios are floats in the code   *)
(* and only the final int(round(..)) of full_score makes an integer.       *)
(***************************************************************************)
EXTENDS Integers, Sequences, FiniteSets, TLC

VARIABLES
    guest_name,     \* NAME_COL of the guest row the core is called for
    contact_names,  \* NAME_COL of the contact rows, as uploaded
    contact_phones, \* PHONE_COL of the contact rows
    contacts_columns,    \* the column names of the contact table
    guest_norm_name,     \* norm_name of the guest row (load_excel)
    contacts_norm_name,  \* norm_name column of the contact table (load_excel)
    pc,             \* "upload" before the tables are loaded, "loaded" after,
                    \* "returned" when a core function has returned to the host
    op,             \* the last core function called
    args,           \* its arguments
    ret,            \* what it returned, or the exception it raised
    calls,          \* how many times in a row that call was made
    guests,         \* st.session_state.guests of the review flow: rows
                    \* [name, norm_name, phone, best_score]
    idx,            \* st.session_state.idx
    can_save,       \* st.session_state.can_save
    options,        \* the options of the radio shown for the current guest
    choice,         \* the option selected in the radio of the current guest
    entry,          \* the manual phone typed and the search result picked
    event,          \* the last interaction of the user with the page
    filter_no,      \* the "only guests missing a phone" checkbox (mobile)
    auth_state,     \* st.session_state.auth_state
    auth_page,      \* the page the last script run rendered
    auth_ok,        \* st.session_state.auth_ok
    auth_code,      \* st.session_state.auth_code, the code issued last
    code_ts,        \* st.session_state.code_ts
    auth_attempts,  \* st.session_state.auth_attempts
    now,            \* time.time()
    sent,           \* what the last send_code call returned
    issued,         \* history: the code send_code was last called with, when,
                    \* and the wrong entries made against it since
    sheet           \* the rows of the allow-list sheet, header row first

core_vars ==
    <<guest_name, contact_names, contact_phones, contacts_columns,
      guest_norm_name, contacts_norm_name, pc, op, args, ret, calls>>

review_vars == <<guests, idx, can_save, options, choice, entry, event>>

mobile_vars == <<filter_no>>

auth_vars ==
    <<auth_state, auth_page, auth_ok, auth_code, code_ts, auth_attempts, now,
      sent, issued>>

sheet_vars == <<sheet>>

vars == <<core_vars, review_vars, mobile_vars, auth_vars, sheet_vars>>

-----------------------------------------------------------------------------
(* Characters *)

\* The characters of the model in code-point order (Python compares strings
\* by code point): ASCII, then the Hebrew block U+05D0..U+05EA, U+05F3, U+05F4.
CharTable ==
    << " ", "apostrophe", "(", ")", ",", "-", ".", "/",
       "A", "C", "D", "H", "K", "L", "M", "S", "T", "Y",
       "grave",
       "a", "b", "c", "d", "e", "f", "g", "h", "i", "j", "k", "l", "m",
       "n", "o", "p", "q", "r", "s", "t", "u", "v", "w", "x", "y", "z",
       "alef", "bet", "gimel", "dalet", "he", "vav", "zayin", "het", "tet",
       "yod", "kaf_sofit", "kaf", "lamed", "mem_sofit", "mem", "nun_sofit",
       "nun", "samekh", "ayin", "pe_sofit", "pe", "tsadi_sofit", "tsadi",
       "qof", "resh", "shin", "tav", "geresh", "gershayim" >>

Chars == { CharTable[i] : i \in 1..Len(CharTable) }

ord == [ c \in Chars |-> CHOOSE i \in 1..Len(CharTable) : CharTable[i] = c ]

\* str.lower() on one character
lower(c) ==
    CASE c = "A" -> "a" [] c = "C" -> "c" [] c = "D" -> "d" [] c = "H" -> "h"
      [] c = "K" -> "k" [] c = "L" -> "l" [] c = "M" -> "m" [] c = "S" -> "s"
      [] c = "T" -> "t" [] c = "Y" -> "y"
      [] OTHER -> c

\* unidecode.unidecode on one character: ASCII is kept, a Hebrew letter
\* becomes its Latin transliteration (one or two ASCII characters).
unidecode_char(c) ==
    CASE c = "alef" -> <<"A">>       [] c = "bet" -> <<"b">>
      [] c = "gimel" -> <<"g">>      [] c = "dalet" -> <<"d">>
      [] c = "he" -> <<"h">>         [] c = "vav" -> <<"v">>
      [] c = "zayin" -> <<"z">>      [] c = "het" -> <<"K", "H">>
      [] c = "tet" -> <<"t">>        [] c = "yod" -> <<"y">>
      [] c = "kaf_sofit" -> <<"k">>  [] c = "kaf" -> <<"k">>
      [] c = "lamed" -> <<"l">>      [] c = "mem_sofit" -> <<"m">>
      [] c = "mem" -> <<"m">>        [] c = "nun_sofit" -> <<"n">>
      [] c = "nun" -> <<"n">>        [] c = "samekh" -> <<"s">>
      [] c = "ayin" -> <<"grave">>       [] c = "pe_sofit" -> <<"p">>
      [] c = "pe" -> <<"p">>         [] c = "tsadi_sofit" -> <<"T", "S">>
      [] c = "tsadi" -> <<"T", "S">> [] c = "qof" -> <<"q">>
      [] c = "resh" -> <<"r">>       [] c = "shin" -> <<"S", "H">>
      [] c = "tav" -> <<"t">>        [] c = "geresh" -> <<"apostrophe">>
      [] c = "gershayim" -> <<"apostrophe", "apostrophe">>
      [] OTHER -> <<c>>

\* the characters of the model that _punc_re replaces by a space
punc_chars == { "/", "(", ")", "apostrophe", "geresh", "gershayim", ".", ",", "-" }

\* the characters \s matches
space_chars == { " " }

-----------------------------------------------------------------------------
(* Text helpers *)

Max(a, b) == IF a >= b THEN a ELSE b
Min(a, b) == IF a <= b THEN a ELSE b
Min3(a, b, c) == Min(a, Min(b, c))

RECURSIVE Concat(_)
\* "".join(parts)
Concat(parts) ==
    IF parts = <<>> THEN <<>> ELSE Head(parts) \o Concat(Tail(parts))

RECURSIVE Join(_)
\* " ".join(parts)
Join(parts) ==
    IF parts = <<>> THEN <<>>
    ELSE IF Len(parts) = 1 THEN parts[1]
    ELSE parts[1] \o <<" ">> \o Join(Tail(parts))

\* str.strip()
RECURSIVE lstrip(_)
lstrip(t) ==
    IF t # <<>> /\ Head(t) \in space_chars THEN lstrip(Tail(t)) ELSE t

RECURSIVE rstrip(_)
rstrip(t) ==
    IF t # <<>> /\ t[Len(t)] \in space_chars
    THEN rstrip(SubSeq(t, 1, Len(t) - 1)) ELSE t

strip(t) == rstrip(lstrip(t))

\* re.sub of a character class followed by +: each maximal run of characters
\* of cls becomes one space.
RECURSIVE sub_runs(_, _, _, _)
sub_runs(cls, t, i, out) ==
    IF i > Len(t) THEN out
    ELSE IF t[i] \in cls
         THEN IF i > 1 /\ t[i - 1] \in cls
              THEN sub_runs(cls, t, i + 1, out)
              ELSE sub_runs(cls, t, i + 1, Append(out, " "))
         ELSE sub_runs(cls, t, i + 1, Append(out, t[i]))

\* _token_re.split(name): the pieces between maximal runs of whitespace,
\* empty pieces at the ends included.
RECURSIVE re_split(_, _, _, _)
re_split(t, i, cur, out) ==
    IF i > Len(t) THEN Append(out, cur)
    ELSE IF t[i] \in space_chars
         THEN IF i > 1 /\ t[i - 1] \in space_chars
              THEN re_split(t, i + 1, cur, out)
              ELSE re_split(t, i + 1, <<>>, Append(out, cur))
         ELSE re_split(t, i + 1, Append(cur, t[i]), out)

\* lexicographic order of Python strings
RECURSIVE str_lt(_, _)
str_lt(a, b) ==
    IF b = <<>> THEN FALSE
    ELSE IF a = <<>> THEN TRUE
    ELSE IF Head(a) = Head(b) THEN str_lt(Tail(a), Tail(b))
    ELSE ord[Head(a)] < ord[Head(b)]

\* set(xs)
ToSet(xs) == { xs[i] : i \in 1..Len(xs) }

RECURSIVE sorted(_)
\* sorted(set_of_strings)
sorted(S) ==
    IF S = {} THEN <<>>
    ELSE LET m == CHOOSE x \in S : \A y \in S : y = x \/ str_lt(x, y)
         IN <<m>> \o sorted(S \ {m})

-----------------------------------------------------------------------------
(* Constants of logic.py *)

AUTO_SCORE == 100
AUTO_SELECT_TH == 93
MIN_SCORE_DISPLAY == 70

GENERIC_TOKENS ==
    { <<"shin", "lamed">>, <<"he">>, <<"bet", "nun_sofit">>, <<"bet", "tav">>,
      <<"mem", "shin", "pe", "het", "tav">>, <<"alef", "het", "yod">>,
      <<"alef", "het", "vav", "tav">>, <<"dalet", "vav", "dalet">>,
      <<"dalet", "vav", "dalet", "he">> }

SUFFIX_TOKENS ==
    { <<"mem", "yod", "lamed", "vav", "alef", "yod", "mem_sofit">>,
      <<"m", "i", "l", "u", "y", "i", "m">>,
      <<"m", "i", "l", "o", "y", "i", "m">>,
      <<"m", "i", "l">>,
      <<"nun", "yod", "yod", "dalet">>,
      <<"samekh", "lamed", "vav", "lamed", "resh">>,
      <<"samekh", "lamed", "vav", "lamed", "resh", "yod">>,
      <<"bet", "yod", "tav">>,
      <<"ayin", "bet", "vav", "dalet", "he">>,
      <<"ayin", "samekh", "qof", "yod">>,
      <<"alef", "yod", "shin", "yod">>,
      <<"mem", "shin", "resh", "dalet">> }

-----------------------------------------------------------------------------
(* Normalizer and tokenizer *)

\* str(txt).lower()
lower_text(t) == [ i \in 1..Len(t) |-> lower(t[i]) ]

\* unidecode.unidecode(t)
unidecode(t) == Concat([ i \in 1..Len(t) |-> unidecode_char(t[i]) ])

normalize(txt) ==
    IF txt = <<>> THEN <<>>
    ELSE LET t1 == lower_text(txt)
             t2 == sub_runs(punc_chars, t1, 1, <<>>)
             t3 == strip(sub_runs(space_chars, t2, 1, <<>>))
         IN unidecode(t3)

clean_token(tok) ==
    IF tok \in SUFFIX_TOKENS THEN <<>>
    ELSE LET t1 == IF tok # <<>> /\ Head(tok) = "v" /\ Len(tok) > 2
                   THEN Tail(tok) ELSE tok
         IN IF Len(t1) >= 4 /\ t1[Len(t1)] = "i"
            THEN SubSeq(t1, 1, Len(t1) - 1) ELSE t1

tokens(name) ==
    LET raw == re_split(name, 1, <<>>, <<>>)
        tks == [ i \in 1..Len(raw) |-> clean_token(raw[i]) ]
    IN SelectSeq(tks, LAMBDA t : t # <<>> /\ t \notin GENERIC_TOKENS)

-----------------------------------------------------------------------------
(* Exact rationals: the floats of the code *)

RECURSIVE GCD(_, _)
GCD(a, b) == IF b = 0 THEN a ELSE GCD(b, a % b)

\* n/d in lowest terms (n >= 0, d > 0)
Rat(n, d) == LET g == GCD(n, d) IN [num |-> n \div g, den |-> d \div g]

RatInt(k) == [num |-> k, den |-> 1]
RatLT(a, b) == a.num * b.den < b.num * a.den
RatLE(a, b) == a.num * b.den <= b.num * a.den
RatMax(a, b) == IF RatLT(a, b) THEN b ELSE a
IsInt(a) == a.den = 1

\* int(x) for x >= 0
py_int(a) == a.num \div a.den

\* round(x) for x = n/d >= 0: to the nearest integer, a tie to the even one
py_round(n, d) ==
    LET q == n \div d
        r == n % d
    IN IF 2 * r > d THEN q + 1
       ELSE IF 2 * r < d THEN q
       ELSE IF q % 2 = 0 THEN q ELSE q + 1

-----------------------------------------------------------------------------
(* rapidfuzz: distance.Levenshtein, fuzz.ratio, fuzz.token_set_ratio,     *)
(* fuzz.partial_ratio                                                      *)

\* One row of the longest-common-subsequence table: prev and cur hold the
\* columns 0..Len(b) at the indexes 1..Len(b)+1.  (The tests on cell and on
\* row always hold; they make the evaluation of each cell and row happen
\* before the next one starts.)
RECURSIVE lcs_row(_, _, _, _, _)
lcs_row(x, b, prev, j, cur) ==
    IF j > Len(b) THEN cur
    ELSE LET cell == IF x = b[j] THEN prev[j] + 1 ELSE Max(prev[j + 1], cur[j])
         IN IF cell >= 0 THEN lcs_row(x, b, prev, j + 1, Append(cur, cell))
            ELSE cur

RECURSIVE lcs_rows(_, _, _, _)
lcs_rows(a, b, i, prev) ==
    IF i > Len(a) THEN prev
    ELSE LET row == lcs_row(a[i], b, prev, 1, <<0>>)
         IN IF Len(row) = Len(prev) THEN lcs_rows(a, b, i + 1, row) ELSE prev

\* length of the longest common subsequence
lcs(a, b) == lcs_rows(a, b, 1, [ j \in 1..(Len(b) + 1) |-> 0 ])[Len(b) + 1]

\* Indel distance: insertions and deletions only
indel_distance(a, b) == Len(a) + Len(b) - 2 * lcs(a, b)

RECURSIVE lev_row(_, _, _, _, _)
lev_row(x, b, prev, j, cur) ==
    IF j > Len(b) THEN cur
    ELSE LET cell == Min3(prev[j + 1] + 1, cur[j] + 1,
                          prev[j] + (IF x = b[j] THEN 0 ELSE 1))
         IN IF cell >= 0 THEN lev_row(x, b, prev, j + 1, Append(cur, cell))
            ELSE cur

RECURSIVE lev_rows(_, _, _, _)
lev_rows(a, b, i, prev) ==
    IF i > Len(a) THEN prev
    ELSE LET row == lev_row(a[i], b, prev, 1, <<i>>)
         IN IF Len(row) = Len(prev) THEN lev_rows(a, b, i + 1, row) ELSE prev

\* distance.Levenshtein.distance with unit weights
levenshtein(a, b) ==
    lev_rows(a, b, 1, [ j \in 1..(Len(b) + 1) |-> j - 1 ])[Len(b) + 1]

\* 100 - 100 * dist / lensum, and 100 for two empty strings
norm_distance(dist, lensum) ==
    IF lensum > 0 THEN Rat(100 * (lensum - dist), lensum) ELSE RatInt(100)

\* fuzz.ratio(a, b), 0..100
ratio(a, b) == norm_distance(indel_distance(a, b), Len(a) + Len(b))

\* str.split()
py_split(s) == SelectSeq(re_split(s, 1, <<>>, <<>>), LAMBDA t : t # <<>>)

\* fuzz.token_set_ratio(s1, s2), 0..100
token_set_ratio(s1, s2) ==
    LET tokens_a == ToSet(py_split(s1))
        tokens_b == ToSet(py_split(s2))
        intersect == tokens_a \cap tokens_b
        diff_ab == tokens_a \ tokens_b
        diff_ba == tokens_b \ tokens_a
        diff_ab_joined == Join(sorted(diff_ab))
        diff_ba_joined == Join(sorted(diff_ba))
        ab_len == Len(diff_ab_joined)
        ba_len == Len(diff_ba_joined)
        sect_len == Len(Join(sorted(intersect)))
        sep == IF sect_len # 0 THEN 1 ELSE 0
        sect_ab_len == sect_len + sep + ab_len
        sect_ba_len == sect_len + sep + ba_len
        result == norm_distance(indel_distance(diff_ab_joined, diff_ba_joined),
                                sect_ab_len + sect_ba_len)
        sect_ab_ratio == norm_distance(sep + ab_len, sect_len + sect_ab_len)
        sect_ba_ratio == norm_distance(sep + ba_len, sect_len + sect_ba_len)
    IN IF tokens_a = {} \/ tokens_b = {} THEN RatInt(0)
       ELSE IF intersect # {} /\ (diff_ab = {} \/ diff_ba = {}) THEN RatInt(100)
       ELSE IF sect_len = 0 THEN result
       ELSE RatMax(result, RatMax(sect_ab_ratio, sect_ba_ratio))

\* the largest of a set of rationals, 0 for the empty set
RatMaxOf(S) ==
    IF S = {} THEN RatInt(0)
    ELSE CHOOSE x \in S : \A y \in S : RatLE(y, x)

\* The best fuzz.ratio of the needle s1 against the windows of s2 that
\* partial_ratio tries (Len(s1) <= Len(s2)): the prefixes shorter than s1,
\* the windows as long as s1, and the suffixes no longer than s1; a window
\* is tried only if its outer character occurs in s1.
partial_ratio_short_needle(s1, s2) ==
    LET len1 == Len(s1)
        len2 == Len(s2)
        cs == ToSet(s1)
        heads == { SubSeq(s2, 1, i) : i \in { k \in 1..(len1 - 1) : s2[k] \in cs } }
        mids == { SubSeq(s2, i + 1, i + len1) :
                    i \in { k \in 0..(len2 - len1 - 1) : s2[k + len1] \in cs } }
        tails == { SubSeq(s2, i + 1, len2) :
                    i \in { k \in (len2 - len1)..(len2 - 1) : s2[k + 1] \in cs } }
    IN RatMaxOf({ ratio(s1, w) : w \in heads \cup mids \cup tails })

\* fuzz.partial_ratio(s1, s2), 0..100
partial_ratio(s1, s2) ==
    IF s1 = <<>> /\ s2 = <<>> THEN RatInt(100)
    ELSE IF s1 = <<>> \/ s2 = <<>> THEN RatInt(0)
    ELSE LET shorter == IF Len(s1) <= Len(s2) THEN s1 ELSE s2
             longer  == IF Len(s1) <= Len(s2) THEN s2 ELSE s1
             res == partial_ratio_short_needle(shorter, longer)
         IN IF res # RatInt(100) /\ Len(s1) = Len(s2)
            THEN RatMax(res, partial_ratio_short_needle(longer, shorter))
            ELSE res

-----------------------------------------------------------------------------
(* Token matcher and scorer *)

\* 1 - dist / max(len) >= 0.9
fuzzy_eq(a, b) ==
    a = b \/ 10 * levenshtein(a, b) <= Max(Len(a), Len(b))

\* The loop of _fuzzy_jaccard from guest token i on: matched counts the
\* matches, used holds the contact tokens consumed (a set of strings),
\* pairs the (guest index, contact index) matched.
RECURSIVE fuzzy_match(_, _, _, _)
fuzzy_match(gs, cs, i, st) ==
    IF i > Len(gs) THEN st
    ELSE LET hit == { j \in 1..Len(cs) :
                        cs[j] \notin st.used /\ fuzzy_eq(gs[i], cs[j]) }
         IN IF hit = {} THEN fuzzy_match(gs, cs, i + 1, st)
            ELSE LET j == CHOOSE k \in hit : \A m \in hit : k <= m
                 IN fuzzy_match(gs, cs, i + 1,
                        [matched |-> st.matched + 1,
                         used |-> st.used \cup {cs[j]},
                         pairs |-> Append(st.pairs, <<i, j>>)])

fuzzy_matching(gs, cs) ==
    fuzzy_match(gs, cs, 1, [matched |-> 0, used |-> {}, pairs |-> <<>>])

fuzzy_jaccard(gs, cs) ==
    LET matched == fuzzy_matching(gs, cs).matched
        union == Cardinality(ToSet(gs)) + Cardinality(ToSet(cs)) - matched
    IN IF union # 0 THEN Rat(matched, union) ELSE RatInt(1)

\* penalty as the pair <<numerator, denominator>>
length_penalty(n_g, n_c) ==
    IF Max(n_g, n_c) - Min(n_g, n_c) >= 2
    THEN <<Min(n_g, n_c), Max(n_g, n_c)>> ELSE <<1, 1>>

\* int(round((0.6 * tr + 0.2 * fr + 0.2 * jr) * penalty * 100)) with
\* tr = T / 100, fr = F / 100, jr = J: (3 T + F + 100 J) / 5 * penalty
blend(T, F, J, pen) ==
    py_round((3 * T.num * F.den * J.den + F.num * T.den * J.den
                + 100 * J.num * T.den * F.den) * pen[1],
             5 * T.den * F.den * J.den * pen[2])

\* the weighted score of two non-empty token lists (steps 5-6)
blended_score(g_t, c_t) ==
    RatInt(blend(token_set_ratio(Join(g_t), Join(c_t)),
                 ratio(g_t[1], c_t[1]),
                 fuzzy_jaccard(g_t, c_t),
                 length_penalty(Len(g_t), Len(c_t))))

\* full_score without the bonus for identical token lists
full_score_no_token_bonus(g_norm, c_norm) ==
    IF g_norm = <<>> \/ c_norm = <<>> THEN RatInt(0)
    ELSE IF strip(g_norm) = strip(c_norm) THEN RatInt(AUTO_SCORE)
    ELSE LET g_t == tokens(g_norm)
             c_t == tokens(c_norm)
         IN IF g_t = <<>> \/ c_t = <<>> THEN partial_ratio(g_norm, c_norm)
            ELSE blended_score(g_t, c_t)

\* full_score testing only the guest name for emptiness
full_score_guest_only_empty(g_norm, c_norm) ==
    IF g_norm = <<>> THEN RatInt(0)
    ELSE IF strip(g_norm) = strip(c_norm) THEN RatInt(AUTO_SCORE)
    ELSE LET g_t == tokens(g_norm)
             c_t == tokens(c_norm)
         IN IF g_t = c_t THEN RatInt(AUTO_SCORE)
            ELSE IF g_t = <<>> \/ c_t = <<>> THEN partial_ratio(g_norm, c_norm)
            ELSE blended_score(g_t, c_t)

\* full_score giving the bonus to token lists equal as sets
full_score_set_bonus(g_norm, c_norm) ==
    IF g_norm = <<>> \/ c_norm = <<>> THEN RatInt(0)
    ELSE IF strip(g_norm) = strip(c_norm) THEN RatInt(AUTO_SCORE)
    ELSE LET g_t == tokens(g_norm)
             c_t == tokens(c_norm)
         IN IF ToSet(g_t) = ToSet(c_t) THEN RatInt(AUTO_SCORE)
            ELSE IF g_t = <<>> \/ c_t = <<>> THEN partial_ratio(g_norm, c_norm)
            ELSE blended_score(g_t, c_t)

full_score(g_norm, c_norm) ==
    IF g_norm = <<>> \/ c_norm = <<>> THEN RatInt(0)
    ELSE IF strip(g_norm) = strip(c_norm) THEN RatInt(AUTO_SCORE)
    ELSE LET g_t == tokens(g_norm)
             c_t == tokens(c_norm)
         IN IF g_t = c_t THEN RatInt(AUTO_SCORE)
            ELSE IF g_t = <<>> \/ c_t = <<>> THEN partial_ratio(g_norm, c_norm)
            ELSE blended_score(g_t, c_t)

-----------------------------------------------------------------------------
(* Candidate selector and best-score aggregator *)

None == [kind |-> "none"]
Ok(v) == [kind |-> "ok", value |-> v]
Raise(e) == [kind |-> "raise", exc |-> e]

reason_for(g_norm, c_norm, score) ==
    LET c_set == ToSet(tokens(c_norm))
        overlap == SelectSeq(tokens(g_norm), LAMBDA t : t \in c_set)
    IN IF overlap # <<>>
       THEN [kind |-> "overlap", toks |-> SubSeq(overlap, 1, Min(2, Len(overlap)))]
       ELSE IF score >= AUTO_SELECT_TH THEN [kind |-> "high", toks |-> <<>>]
       ELSE [kind |-> "empty", toks |-> <<>>]

\* contacts_df["norm_name"].apply(lambda c: full_score(guest_norm, c))
RECURSIVE score_column(_, _, _, _)
score_column(guest, norms, i, out) ==
    IF i > Len(norms) THEN out
    ELSE score_column(guest, norms, i + 1, Append(out, full_score(guest, norms[i])))

\* the order of sort_values(["score", NAME_COL], ascending=[False, True]):
\* row i comes before row j (a stable sort: equal keys keep the row order)
row_before(names, scores, i, j) ==
    \/ RatLT(scores[j], scores[i])
    \/ /\ scores[i] = scores[j]
       /\ \/ str_lt(names[i], names[j])
          \/ names[i] = names[j] /\ i < j

RECURSIVE sort_values(_, _, _)
sort_values(names, scores, S) ==
    IF S = {} THEN <<>>
    ELSE LET i == CHOOSE k \in S : \A m \in S \ {k} : row_before(names, scores, k, m)
         IN <<i>> \o sort_values(names, scores, S \ {i})

head(xs, n) == SubSeq(xs, 1, Min(n, Len(xs)))

\* the shortlist without sort_values: the rows stay in table order
shortlist_row_order(names, scores, th) ==
    head(SelectSeq([ i \in 1..Len(scores) |-> i ],
                   LAMBDA i : RatLE(RatInt(th), scores[i])), 3)

\* df[df["score"] >= th].sort_values(...).head(3)
shortlist(names, scores, th) ==
    head(sort_values(names, scores,
                     { i \in 1..Len(scores) : RatLE(RatInt(th), scores[i]) }), 3)

\* the candidate rows with their 'reason' column
candidate_rows(guest_norm, norms, scores, candidates) ==
    [ k \in 1..Len(candidates) |->
        [row |-> candidates[k],
         score |-> scores[candidates[k]],
         reason |-> reason_for(guest_norm, norms[candidates[k]],
                               py_int(scores[candidates[k]]))] ]

\* top_matches without the fallback tier
top_matches_no_fallback(guest_norm, names, norms) ==
    IF guest_norm = <<>> THEN [kind |-> "ok", value |-> <<>>, scored |-> 0]
    ELSE IF norms = <<>> THEN [kind |-> "raise", exc |-> "ValueError", scored |-> 0]
    ELSE LET scores == score_column(guest_norm, norms, 1, <<>>)
             max_score == py_int(RatMaxOf(ToSet(scores)))
             candidates ==
                 IF max_score = AUTO_SCORE THEN shortlist(names, scores, 90)
                 ELSE shortlist(names, scores, MIN_SCORE_DISPLAY)
         IN [kind |-> "ok",
             value |-> candidate_rows(guest_norm, norms, scores, candidates),
             scored |-> Len(norms)]

\* top_matches without the test of the guest name
top_matches_no_guard(guest_norm, names, norms) ==
    IF norms = <<>> THEN [kind |-> "raise", exc |-> "ValueError", scored |-> 0]
    ELSE LET scores == score_column(guest_norm, norms, 1, <<>>)
             max_score == py_int(RatMaxOf(ToSet(scores)))
             first == shortlist(names, scores, MIN_SCORE_DISPLAY)
             candidates ==
                 IF max_score = AUTO_SCORE THEN shortlist(names, scores, 90)
                 ELSE IF first # <<>> THEN first
                 ELSE shortlist(names, scores, 50)
         IN [kind |-> "ok",
             value |-> candidate_rows(guest_norm, norms, scores, candidates),
             scored |-> Len(norms)]

\* top_matches: the rows returned are [row, score, reason], row being the
\* index of the contact; scored counts the contacts scored; an empty score
\* column has max() NaN and int(NaN) raises ValueError.
top_matches(guest_norm, names, norms) ==
    IF guest_norm = <<>> THEN [kind |-> "ok", value |-> <<>>, scored |-> 0]
    ELSE IF norms = <<>> THEN [kind |-> "raise", exc |-> "ValueError", scored |-> 0]
    ELSE LET scores == score_column(guest_norm, norms, 1, <<>>)
             max_score == py_int(RatMaxOf(ToSet(scores)))
             first == shortlist(names, scores, MIN_SCORE_DISPLAY)
             candidates ==
                 IF max_score = AUTO_SCORE THEN shortlist(names, scores, 90)
                 ELSE IF first # <<>> THEN first
                 ELSE shortlist(names, scores, 50)
         IN [kind |-> "ok",
             value |-> candidate_rows(guest_norm, norms, scores, candidates),
             scored |-> Len(norms)]

\* compute_best_scores for one guest row
compute_best_scores(guest_norm, norms) ==
    IF guest_norm = <<>> THEN Ok(0)
    ELSE IF norms = <<>> THEN Raise("ValueError")
    ELSE Ok(py_int(RatMaxOf(ToSet(score_column(guest_norm, norms, 1, <<>>)))))

-----------------------------------------------------------------------------
(* Phone texts and data frames *)

Digits == { "0", "1", "2", "3", "4", "5", "6", "7", "8", "9" }

\* re.sub(r"\D+", "", s), "".join(filter(str.isdigit, s))
only_digits(s) == SelectSeq(s, LAMBDA c : c \in Digits)

\* format_phone: a leading 972 becomes 0, ten digits become XXX-XXXXXXX
format_phone(ph) ==
    LET d0 == only_digits(ph)
        d == IF Len(d0) >= 3 /\ SubSeq(d0, 1, 3) = <<"9", "7", "2">>
             THEN <<"0">> \o SubSeq(d0, 4, Len(d0)) ELSE d0
    IN IF Len(d) = 10 THEN SubSeq(d, 1, 3) \o <<"-">> \o SubSeq(d, 4, 10) ELSE d

\* normalize_phone_basic: the digits if they match ^0\d{9}$, else None
\* (ok = FALSE)
normalize_phone_basic(p) ==
    LET d == only_digits(p)
    IN IF Len(d) = 10 /\ d[1] = "0" THEN [ok |-> TRUE, value |-> d]
       ELSE [ok |-> FALSE, value |-> <<>>]

\* the PHONE_COL cell as load_excel leaves it: a trailing ".0" removed,
\* then stripped
load_phone(p) ==
    strip(IF Len(p) >= 2 /\ p[Len(p) - 1] = "." /\ p[Len(p)] = "0"
          THEN SubSeq(p, 1, Len(p) - 2) ELSE p)

\* the columns load_excel guarantees
loaded_columns == { "name", "phone", "count", "side", "group", "norm_name" }

\* df.assign(col=...) made in place: the frame itself gets the column
df_assign_inplace(columns, col) ==
    [self |-> columns \cup {col}, result |-> columns \cup {col}]

\* df.assign(col=...): self is the frame it is called on, after the call,
\* result the new frame it returns
df_assign(columns, col) ==
    [self |-> columns, result |-> columns \cup {col}]

\* df.copy()
df_copy(columns) == [self |-> columns, result |-> columns]

\* the columns of contacts_df after top_matches(guest_norm, contacts_df)
top_matches_frame(guest_norm, columns) ==
    IF guest_norm = <<>> THEN columns ELSE df_assign(columns, "score").self

-----------------------------------------------------------------------------
(* The review page of app.py *)

\* df = filtered_df.sort_values(["best_score", NAME_COL], ascending=[False, True]):
\* the guest rows in the order of review (no filter is ever set: is_mobile()
\* is always true and the filters are rendered on the desktop side bar only)
review_order(gs) ==
    sort_values([ i \in 1..Len(gs) |-> gs[i].name ],
                [ i \in 1..Len(gs) |-> RatInt(gs[i].best_score) ],
                1..Len(gs))

\* lines 401-412 of render_match_selection on the score column: with a
\* best score of 100 the first 3 rows scoring >= 90, else the first 5 rows
\* scoring >= 70, ordered by score (descending) and name
render_candidates(names, scores) ==
    IF scores # <<>> /\ RatLE(RatInt(100), RatMaxOf(ToSet(scores)))
    THEN head(sort_values(names, scores,
              { i \in 1..Len(scores) : RatLE(RatInt(90), scores[i]) }), 3)
    ELSE head(sort_values(names, scores,
              { i \in 1..Len(scores) : RatLE(RatInt(70), scores[i]) }), 5)

\* the candidates of render_match_selection: rows of the contact table with
\* their scores
candidates_of(rows, scores) ==
    [ k \in 1..Len(rows) |-> [row |-> rows[k], score |-> scores[rows[k]]] ]

scored_candidates(names, scores) ==
    candidates_of(render_candidates(names, scores), scores)

render_match_selection(cur_norm, names, norms) ==
    scored_candidates(names, score_column(cur_norm, norms, 1, <<>>))

NoMatch == [kind |-> "none", row |-> 0, phone |-> <<>>]
ManualInput == [kind |-> "manual", row |-> 0, phone |-> <<>>]
ContactSearch == [kind |-> "search", row |-> 0, phone |-> <<>>]

\* create_radio_options: "no match", one option "name | phone" for each
\* candidate, "manual input", "contact search"
create_radio_options(candidates, phones) ==
    <<NoMatch>>
    \o [ k \in 1..Len(candidates) |->
           [kind |-> "cand", row |-> candidates[k].row,
            phone |-> format_phone(phones[candidates[k].row])] ]
    \o <<ManualInput, ContactSearch>>

\* get_auto_select_index: the position (from 0) of the first candidate's
\* option when its score is >= AUTO_SELECT_TH, else 0.  (The first option
\* that contains the first candidate's name is that candidate's own.)
get_auto_select_index(candidates) ==
    IF candidates = <<>> THEN 0
    ELSE IF RatLE(RatInt(AUTO_SELECT_TH), candidates[1].score) THEN 1
    ELSE 0

\* extract_phone_from_choice: the text after the last "|", stripped
extract_phone_from_choice(ch) ==
    IF ch.kind = "cand" THEN strip(ch.phone) ELSE <<>>

\* handle_manual_input: the text typed, "" when it is no valid phone
handle_manual_input(text) ==
    IF text # <<>> /\ ~normalize_phone_basic(text).ok THEN <<>> ELSE text

\* handle_contact_search: the phone of the search result picked (row 0: no
\* result picked), as shown in the result's text
handle_contact_search(row, phones) ==
    IF row = 0 THEN <<>> ELSE strip(format_phone(phones[row]))

NoEntry == [manual |-> <<>>, search |-> 0]

\* lines 734-757: save_value (ok = FALSE for None) and can_save
save_state(ch, en, phones) ==
    LET manual_phone == IF ch.kind = "manual" THEN handle_manual_input(en.manual)
                        ELSE <<>>
        search_phone == IF ch.kind = "search"
                        THEN handle_contact_search(en.search, phones) ELSE <<>>
    IN IF manual_phone # <<>>
       THEN [can_save |-> normalize_phone_basic(manual_phone).ok,
             save_value |-> normalize_phone_basic(manual_phone)]
       ELSE IF search_phone # <<>>
       THEN [can_save |-> TRUE, save_value |-> [ok |-> TRUE, value |-> search_phone]]
       ELSE IF ch.kind = "none"
       THEN [can_save |-> TRUE, save_value |-> [ok |-> TRUE, value |-> <<>>]]
       ELSE IF ch.kind = "cand"
       THEN [can_save |-> TRUE,
             save_value |-> [ok |-> TRUE, value |-> extract_phone_from_choice(ch)]]
       ELSE [can_save |-> FALSE, save_value |-> [ok |-> FALSE, value |-> <<>>]]

\* the save condition written without the button
save_on_can_save(next_btn, cs) == cs

\* line 768: if next_btn and st.session_state.can_save
save_on(next_btn, cs) == next_btn /\ cs

\* the assignment written for the whole phone column
set_phone_column(gs, row, formatted_phone) ==
    [ g \in 1..Len(gs) |-> [gs[g] EXCEPT !.phone = formatted_phone] ]

\* st.session_state.guests.at[cur.name, PHONE_COL] = formatted_phone
set_phone(gs, row, formatted_phone) ==
    [gs EXCEPT ![row] = [@ EXCEPT !.phone = formatted_phone]]

-----------------------------------------------------------------------------
(* Names of the model *)

MaxContacts == 4

N_empty == <<>>
N_yossi_cohen == <<"y", "o", "s", "s", "i", " ", "c", "o", "h", "e", "n">>
N_cohen_yossi == <<"c", "o", "h", "e", "n", " ", "y", "o", "s", "s", "i">>
N_yossi_levy == <<"y", "o", "s", "s", "i", " ", "l", "e", "v", "y">>
N_abrahamson2 ==
    <<"a", "b", "r", "a", "h", "a", "m", "s", "o", "n", " ",
      "a", "b", "r", "a", "h", "a", "m", "s", "o", "n">>
N_abrahamson_abrahamsen ==
    <<"a", "b", "r", "a", "h", "a", "m", "s", "o", "n", " ",
      "a", "b", "r", "a", "h", "a", "m", "s", "e", "n">>
N_levy_abrahamson ==
    <<"l", "e", "v", "y", " ", "a", "b", "r", "a", "h", "a", "m", "s", "o", "n">>
N_abrahamson == <<"a", "b", "r", "a", "h", "a", "m", "s", "o", "n">>
N_abrahamson4 ==
    <<"a", "b", "r", "a", "h", "a", "m", "s", "o", "n", " ",
      "a", "b", "r", "a", "h", "a", "m", "s", "o", "n", " ",
      "a", "b", "r", "a", "h", "a", "m", "s", "o", "n", " ",
      "a", "b", "r", "a", "h", "a", "m", "s", "o", "n">>
N_dan == <<"d", "a", "n">>
N_dan_michael_cohen_levy ==
    <<"d", "a", "n", " ", "m", "i", "c", "h", "a", "e", "l", " ",
      "c", "o", "h", "e", "n", " ", "l", "e", "v", "y">>
N_dan_cohen == <<"d", "a", "n", " ", "c", "o", "h", "e", "n">>
N_Dan_Cohen == <<"D", "a", "n", "-", "C", "o", "h", "e", "n">>
N_dan_mil == <<"d", "a", "n", " ", "m", "i", "l">>
N_mil == <<"m", "i", "l">>
N_miluyim == <<"m", "i", "l", "u", "y", "i", "m">>
N_miloyim == <<"m", "i", "l", "o", "y", "i", "m">>
N_he_dan_nayad == <<"dalet", "nun_sofit", " ", "nun", "yod", "yod", "dalet">>
N_he_dan == <<"dalet", "nun_sofit">>
N_he_shel_dan == <<"shin", "lamed", " ", "dalet", "nun_sofit">>
N_vered_levi == <<"v", "e", "r", "e", "d", " ", "l", "e", "v", "i">>
N_vardi == <<"v", "a", "r", "d", "i">>
N_ardi == <<"a", "r", "d", "i">>

\* guest and contact names of the table-level specification
GuestNames == { N_empty, N_yossi_cohen, N_abrahamson2, N_dan }
ContactPool ==
    << N_empty, N_cohen_yossi, N_yossi_levy, N_abrahamson2,
       N_abrahamson_abrahamsen, N_levy_abrahamson, N_abrahamson >>

\* names of the pair-level specification
PairNames ==
    { N_empty, N_yossi_cohen, N_cohen_yossi, N_yossi_levy, N_abrahamson2,
      N_abrahamson_abrahamsen, N_dan, N_dan_michael_cohen_levy, N_dan_cohen,
      N_Dan_Cohen, N_dan_mil, N_mil, N_miluyim, N_miloyim, N_he_dan_nayad,
      N_he_dan,
      N_he_shel_dan, N_vered_levi, N_vardi, N_ardi, N_abrahamson4 }

\* the contact tables: at most MaxContacts rows with distinct names, listed
\* in the order of the pool or in the reverse order
ContactNames == ToSet(ContactPool)
Reverse(s) == [ i \in 1..Len(s) |-> s[Len(s) + 1 - i] ]
Rows_of(S, pool) == SelectSeq(pool, LAMBDA n : n \in S)
TablesOf(pool, lo, hi) ==
    UNION { { Rows_of(S, pool), Rows_of(S, Reverse(pool)) } :
              S \in { T \in SUBSET ToSet(pool) :
                        Cardinality(T) >= lo /\ Cardinality(T) <= hi } }
Tables == TablesOf(ContactPool, 0, MaxContacts)

\* the phone cells of the uploaded files
Ph_cohen_yossi == <<"0", "5", "0", "1", "2", "3", "4", "5", "6", "7">>
Ph_Dan_Cohen == <<"9", "7", "2", "5", "2", "1", "2", "3", "4", "5", "6", "7">>
Ph_yossi_cohen == <<"5", "4", "1", "2", "3", "4", "5", "6", "7", ".", "0">>
Ph_dan == <<"0", "5", "4", "-", "1", "1", "1", "1", "1", "1", "1">>
Ph_manual == <<"0", "5", "3", " ", "1", "2", "3", "4", "5", "6", "7">>
Ph_invalid == <<"1", "2", "3">>

PhoneOf(name) ==
    CASE name = N_cohen_yossi -> Ph_cohen_yossi
      [] name = N_Dan_Cohen -> Ph_Dan_Cohen
      [] name = N_yossi_cohen -> Ph_yossi_cohen
      [] OTHER -> <<>>

GuestPhoneOf(name) == IF name = N_dan THEN Ph_dan ELSE <<>>

\* the tables and the typed phones of the review flow
MaxGuests == 2
MaxReviewContacts == 2
ReviewGuestPool == << N_yossi_cohen, N_dan_cohen, N_dan >>
ReviewContactPool == << N_cohen_yossi, N_yossi_levy, N_Dan_Cohen, N_yossi_cohen >>
GuestTables == TablesOf(ReviewGuestPool, 1, MaxGuests)
ReviewTables == TablesOf(ReviewContactPool, 0, MaxReviewContacts)
ManualEntries == { <<>>, Ph_invalid, Ph_manual }

\* how often a call is repeated
MaxCalls == 2

-----------------------------------------------------------------------------
(* The state machine *)

PureOps == { "full_score", "top_matches", "compute_best_scores" }

TypeOK ==
    /\ pc \in {"upload", "loaded", "returned", "review", "done"}
    /\ op \in {"none", "full_score", "top_matches", "compute_best_scores",
               "normalize", "tokens", "fuzzy_jaccard",
               "send", "verify", "back", "rerun",
               "add_user_to_excel", "remove_user_from_excel", "webhook",
               "is_user_authorized"}
    /\ calls \in 0..MaxCalls
    /\ idx \in 0..Len(guests)
    /\ can_save \in BOOLEAN
    /\ Len(contact_phones) = Len(contact_names)
    /\ event \in {"none", "upload", "upload_failed", "select", "manual",
                  "search", "next", "back", "shown", "filter",
                  "invalid_phone", "sent", "not_sent", "expired", "verified",
                  "wrong", "locked"}
    /\ auth_state \in {"phone", "code"}
    /\ auth_page \in {"phone", "code", "app"}
    /\ auth_ok \in BOOLEAN
    /\ auth_attempts \in Nat
    /\ sent \in {"none", "ok", "failed"}
    /\ filter_no \in BOOLEAN

InitReviewVars ==
    /\ guests = <<>>
    /\ idx = 0
    /\ can_save = FALSE
    /\ options = <<>>
    /\ choice = NoMatch
    /\ entry = NoEntry
    /\ event = "none"
    /\ filter_no = FALSE

\* the session before the first script run of auth_flow
InitAuthVars ==
    /\ auth_state = "phone"
    /\ auth_page = "phone"
    /\ auth_ok = FALSE
    /\ auth_code = <<>>
    /\ code_ts = 0
    /\ auth_attempts = 0
    /\ now = 0
    /\ sent = "none"
    /\ issued = [code |-> <<>>, at |-> 0, wrong |-> 0]

InitCore(guest, contacts) ==
    /\ guest_name = guest
    /\ contact_names = contacts
    /\ contact_phones = [ i \in 1..Len(contacts) |-> PhoneOf(contacts[i]) ]
    /\ contacts_columns = { "name", "phone" }
    /\ guest_norm_name = <<>>
    /\ contacts_norm_name = <<>>
    /\ pc = "upload"
    /\ op = "none"
    /\ args = <<>>
    /\ ret = None
    /\ calls = 0

InitTables ==
    /\ \E g \in GuestNames, t \in Tables : InitCore(g, t)
    /\ InitReviewVars
    /\ InitAuthVars
    /\ sheet = <<>>

InitPairs ==
    /\ \E g \in PairNames, c \in PairNames : InitCore(g, <<c>>)
    /\ InitReviewVars
    /\ InitAuthVars
    /\ sheet = <<>>

InitReview ==
    /\ \E t \in ReviewTables : InitCore(<<>>, t)
    /\ InitReviewVars
    /\ InitAuthVars
    /\ sheet = <<>>

\* load_excel on the contact file: NAME_COL and PHONE_COL cleaned, the
\* missing columns added, norm_name computed
LoadContacts ==
    /\ contact_names' = [ i \in 1..Len(contact_names) |-> strip(contact_names[i]) ]
    /\ contact_phones' =
           [ i \in 1..Len(contact_phones) |-> load_phone(contact_phones[i]) ]
    /\ contacts_columns' = contacts_columns \cup loaded_columns
    /\ contacts_norm_name' =
           [ i \in 1..Len(contact_names) |-> normalize(strip(contact_names[i])) ]

\* load_excel on both tables, the guest table having the one row guest_name
LoadExcel ==
    /\ pc = "upload"
    /\ pc' = "loaded"
    /\ guest_name' = strip(guest_name)
    /\ guest_norm_name' = normalize(strip(guest_name))
    /\ LoadContacts
    /\ UNCHANGED <<op, args, ret, calls>>
    /\ UNCHANGED <<review_vars, mobile_vars, auth_vars, sheet_vars>>

ContactsUnchanged ==
    UNCHANGED <<guest_name, contact_names, contact_phones, guest_norm_name,
                contacts_norm_name>>

\* full_score(guest norm_name, norm_name of contact row i)
FullScore(i) ==
    /\ pc = "loaded"
    /\ op' = "full_score"
    /\ args' = <<guest_norm_name, contacts_norm_name[i]>>
    /\ ret' = Ok(full_score(guest_norm_name, contacts_norm_name[i]))
    /\ pc' = "returned"
    /\ calls' = 1
    /\ ContactsUnchanged
    /\ UNCHANGED contacts_columns
    /\ UNCHANGED <<review_vars, mobile_vars, auth_vars, sheet_vars>>

TopMatches ==
    /\ pc = "loaded"
    /\ op' = "top_matches"
    /\ args' = <<guest_norm_name>>
    /\ ret' = top_matches(guest_norm_name, contact_names, contacts_norm_name)
    /\ contacts_columns' = top_matches_frame(guest_norm_name, contacts_columns)
    /\ pc' = "returned"
    /\ calls' = 1
    /\ ContactsUnchanged
    /\ UNCHANGED <<review_vars, mobile_vars, auth_vars, sheet_vars>>

ComputeBestScores ==
    /\ pc = "loaded"
    /\ op' = "compute_best_scores"
    /\ args' = <<guest_norm_name>>
    /\ ret' = compute_best_scores(guest_norm_name, contacts_norm_name)
    /\ pc' = "returned"
    /\ calls' = 1
    /\ ContactsUnchanged
    /\ UNCHANGED contacts_columns
    /\ UNCHANGED <<review_vars, mobile_vars, auth_vars, sheet_vars>>

\* the same call made again on the same tables
CallAgain ==
    /\ pc = "returned"
    /\ op \in PureOps
    /\ calls < MaxCalls
    /\ calls' = calls + 1
    /\ ret' = CASE op = "full_score" -> Ok(full_score(args[1], args[2]))
                [] op = "top_matches" ->
                     top_matches(args[1], contact_names, contacts_norm_name)
                [] op = "compute_best_scores" ->
                     compute_best_scores(args[1], contacts_norm_name)
    /\ contacts_columns' =
           IF op = "top_matches" THEN top_matches_frame(args[1], contacts_columns)
           ELSE contacts_columns
    /\ UNCHANGED <<pc, op, args>>
    /\ ContactsUnchanged
    /\ UNCHANGED <<review_vars, mobile_vars, auth_vars, sheet_vars>>

\* normalize applied to a name column cell or to a norm_name
Normalize ==
    /\ pc = "loaded"
    /\ \E x \in {guest_name, guest_norm_name} :
          /\ args' = <<x>>
          /\ ret' = Ok(normalize(x))
    /\ op' = "normalize"
    /\ pc' = "returned"
    /\ calls' = 1
    /\ ContactsUnchanged
    /\ UNCHANGED contacts_columns
    /\ UNCHANGED <<review_vars, mobile_vars, auth_vars, sheet_vars>>

\* _tokens(norm_name of the guest row)
Tokens ==
    /\ pc = "loaded"
    /\ op' = "tokens"
    /\ args' = <<guest_norm_name>>
    /\ ret' = Ok(tokens(guest_norm_name))
    /\ pc' = "returned"
    /\ calls' = 1
    /\ ContactsUnchanged
    /\ UNCHANGED contacts_columns
    /\ UNCHANGED <<review_vars, mobile_vars, auth_vars, sheet_vars>>

\* _fuzzy_jaccard(token list of the guest, token list of contact row i); the
\* result carries the loop's match count and matched index pairs
FuzzyJaccard(i) ==
    /\ pc = "loaded"
    /\ op' = "fuzzy_jaccard"
    /\ args' = <<tokens(guest_norm_name), tokens(contacts_norm_name[i])>>
    /\ ret' = [kind |-> "ok",
               value |-> fuzzy_jaccard(tokens(guest_norm_name),
                                       tokens(contacts_norm_name[i])),
               matched |-> fuzzy_matching(tokens(guest_norm_name),
                                          tokens(contacts_norm_name[i])).matched,
               pairs |-> fuzzy_matching(tokens(guest_norm_name),
                                        tokens(contacts_norm_name[i])).pairs]
    /\ pc' = "returned"
    /\ calls' = 1
    /\ ContactsUnchanged
    /\ UNCHANGED contacts_columns
    /\ UNCHANGED <<review_vars, mobile_vars, auth_vars, sheet_vars>>

\* the host script runs again (every interaction reruns it) and may call
\* the core again on the same tables
Rerun ==
    /\ pc = "returned"
    /\ pc' = "loaded"
    /\ op' = "none"
    /\ args' = <<>>
    /\ ret' = None
    /\ calls' = 0
    /\ ContactsUnchanged
    /\ UNCHANGED contacts_columns
    /\ UNCHANGED <<review_vars, mobile_vars, auth_vars, sheet_vars>>

Next ==
    \/ LoadExcel
    \/ Rerun
    \/ \E i \in 1..Len(contacts_norm_name) : FullScore(i)
    \/ TopMatches
    \/ ComputeBestScores
    \/ CallAgain
    \/ Normalize
    \/ Tokens
    \/ \E i \in 1..Len(contacts_norm_name) : FuzzyJaccard(i)

Spec == InitTables /\ [][Next]_vars

SpecScore == InitPairs /\ [][Next]_vars

-----------------------------------------------------------------------------
(* The review flow: the upload confirmation and the review page *)

CoreUnchanged ==
    UNCHANGED <<guest_name, guest_norm_name, op, args, ret, calls,
                mobile_vars, auth_vars, sheet_vars>>

\* the rows load_excel makes of the guest file gt
load_guests(gt) ==
    [ i \in 1..Len(gt) |->
        [name |-> strip(gt[i]),
         norm_name |-> normalize(strip(gt[i])),
         phone |-> load_phone(GuestPhoneOf(gt[i]))] ]

\* The script run that shows guest number i (from 0) of the review order with
\* fresh widgets and no button pressed: the radio starts at
\* options[auto_index].  At the end of the list the completion screen stops
\* the script before can_save is touched.  (Values are bound by \E over a
\* one-element set, so that each is computed once.)
fresh_run(gs, i, cs, names, norms, phones) ==
    IF i >= Len(gs)
    THEN /\ guests' = gs
         /\ idx' = i
         /\ can_save' = cs
         /\ options' = <<>>
         /\ choice' = NoMatch
         /\ entry' = NoEntry
         /\ pc' = "done"
    ELSE \E candidates \in
              { render_match_selection(gs[review_order(gs)[i + 1]].norm_name,
                                       names, norms) } :
         \E opts \in { create_radio_options(candidates, phones) } :
         \E ch \in { opts[get_auto_select_index(candidates) + 1] } :
            /\ guests' = gs
            /\ idx' = i
            /\ can_save' = save_state(ch, NoEntry, phones).can_save
            /\ options' = opts
            /\ choice' = ch
            /\ entry' = NoEntry
            /\ pc' = "review"

\* The "confirm files" button (lines 557-568): load_excel on both files,
\* best_score for every guest, upload_confirmed, and the rerun that shows
\* the first guest.  When compute_best_scores raises, the tables stay in the
\* session without best_score and the upload page stays.
ConfirmUpload ==
    /\ pc = "upload"
    /\ \E gt \in GuestTables :
       \E names \in { [ i \in 1..Len(contact_names) |-> strip(contact_names[i]) ] } :
       \E norms \in { [ i \in 1..Len(names) |-> normalize(names[i]) ] } :
       \E phones \in { [ i \in 1..Len(contact_phones) |->
                           load_phone(contact_phones[i]) ] } :
       \E gs \in { load_guests(gt) } :
       \E best \in { [ i \in 1..Len(gs) |->
                         compute_best_scores(gs[i].norm_name, norms) ] } :
          IF \E i \in 1..Len(gs) : best[i].kind = "raise"
          THEN /\ guests' = gs
               /\ event' = "upload_failed"
               /\ UNCHANGED <<pc, idx, can_save, options, choice, entry>>
          ELSE /\ \E scored \in { [ i \in 1..Len(gs) |->
                                      [name |-> gs[i].name,
                                       norm_name |-> gs[i].norm_name,
                                       phone |-> gs[i].phone,
                                       best_score |-> best[i].value] ] } :
                     fresh_run(scored, 0, FALSE, names, norms, phones)
               /\ event' = "upload"
    /\ LoadContacts
    /\ CoreUnchanged

\* One run of the review part of the script (lines 682-776) for the widget
\* values ch, en and the buttons pressed; a handler that ends in
\* force_rerun() is followed by the fresh run it starts.  A run that stays
\* on the same guest renders the options again: the guest's norm_name and
\* the contact table are the same as in the run that showed them first.
main_run(ch, en, back_btn, next_btn) ==
    \E st \in { save_state(ch, en, contact_phones) } :
    \E formatted_phone \in { IF st.save_value.ok /\ st.save_value.value # <<>>
                             THEN format_phone(st.save_value.value) ELSE <<>> } :
    \E go \in { IF back_btn /\ idx > 0
                THEN [rerun |-> TRUE, guests |-> guests, idx |-> idx - 1]
                ELSE IF save_on(next_btn, st.can_save)
                THEN [rerun |-> TRUE,
                      guests |-> set_phone(guests, review_order(guests)[idx + 1],
                                           formatted_phone),
                      idx |-> idx + 1]
                ELSE [rerun |-> FALSE, guests |-> guests, idx |-> idx] } :
       IF go.rerun
       THEN fresh_run(go.guests, go.idx, FALSE,
                      contact_names, contacts_norm_name, contact_phones)
       ELSE /\ can_save' = st.can_save
            /\ choice' = ch
            /\ entry' = en
            /\ UNCHANGED <<guests, idx, options, pc>>

\* the script run of the review page for the widget values ch, en
ReviewRun(ch, en, back_btn, next_btn) ==
    /\ main_run(ch, en, back_btn, next_btn)
    /\ contacts_columns' = df_copy(contacts_columns).self
    /\ UNCHANGED <<contact_names, contact_phones, contacts_norm_name>>
    /\ CoreUnchanged

\* the user selects another option of the radio
SelectOption ==
    /\ pc = "review"
    /\ \E k \in 1..Len(options) :
          /\ options[k] # choice
          /\ ReviewRun(options[k], NoEntry, FALSE, FALSE)
    /\ event' = "select"

\* the user types a phone into the manual input
EnterManual ==
    /\ pc = "review"
    /\ choice.kind = "manual"
    /\ \E text \in ManualEntries :
          /\ text # entry.manual
          /\ ReviewRun(choice, [manual |-> text, search |-> 0], FALSE, FALSE)
    /\ event' = "manual"

\* the user searches the contacts and picks a result
PickSearch ==
    /\ pc = "review"
    /\ choice.kind = "search"
    /\ \E row \in 1..Len(contact_names) :
          /\ row # entry.search
          /\ ReviewRun(choice, [manual |-> <<>>, search |-> row], FALSE, FALSE)
    /\ event' = "search"

\* the user presses "next" (the button is enabled when can_save was true at
\* the end of the last run)
PressNext ==
    /\ pc = "review"
    /\ can_save
    /\ ReviewRun(choice, entry, FALSE, TRUE)
    /\ event' = "next"

\* the user presses "back" (the button is disabled for the first guest)
PressBack ==
    /\ pc = "review"
    /\ idx > 0
    /\ ReviewRun(choice, entry, TRUE, FALSE)
    /\ event' = "back"

NextReview ==
    \/ ConfirmUpload
    \/ SelectOption
    \/ EnterManual
    \/ PickSearch
    \/ PressNext
    \/ PressBack

SpecReview == InitReview /\ [][NextReview]_vars

-----------------------------------------------------------------------------
(* The review flow of backup/src/mobile_app.py *)

\* create_radio_options_mobile: as create_radio_options, a candidate of
\* score 100 marked in front of its text
create_radio_options_mobile(candidates, phones) ==
    <<NoMatch>>
    \o [ k \in 1..Len(candidates) |->
           [kind |-> "cand", row |-> candidates[k].row,
            phone |-> format_phone(phones[candidates[k].row]),
            mark |-> py_int(candidates[k].score) = 100] ]
    \o <<ManualInput, ContactSearch>>

\* render_match_selection_mobile: the candidates (the radio starts at
\* index 0)
render_match_selection_mobile(cur_norm, names, norms) ==
    scored_candidates(names, score_column(cur_norm, norms, 1, <<>>))

\* extract_phone_from_choice_mobile: the mark removed, the text after the
\* last "|", stripped
extract_phone_from_choice_mobile(ch) ==
    IF ch.kind = "cand" THEN strip(ch.phone) ELSE <<>>

\* lines 515-527: the manual phone typed, "" when it is no valid phone
mobile_manual_phone(text) ==
    IF text # <<>> /\ ~normalize_phone_basic(text).ok THEN <<>> ELSE text

\* lines 529-558: the phone of the search result picked (row 0: none)
mobile_search_phone(row, phones) ==
    IF row = 0 THEN <<>> ELSE strip(format_phone(phones[row]))

\* lines 571-587: can_save and save_value (ok = FALSE for None)
mobile_save_state(ch, en, phones) ==
    LET manual_phone == IF ch.kind = "manual" THEN mobile_manual_phone(en.manual)
                        ELSE <<>>
        search_phone == IF ch.kind = "search"
                        THEN mobile_search_phone(en.search, phones) ELSE <<>>
    IN IF manual_phone # <<>>
       THEN [can_save |-> normalize_phone_basic(manual_phone).ok,
             save_value |-> normalize_phone_basic(manual_phone)]
       ELSE IF search_phone # <<>>
       THEN [can_save |-> TRUE, save_value |-> [ok |-> TRUE, value |-> search_phone]]
       ELSE IF ch.kind = "none"
       THEN [can_save |-> TRUE, save_value |-> [ok |-> TRUE, value |-> <<>>]]
       ELSE IF ch.kind = "cand"
       THEN [can_save |-> TRUE,
             save_value |-> [ok |-> TRUE, value |-> extract_phone_from_choice_mobile(ch)]]
       ELSE [can_save |-> FALSE, save_value |-> [ok |-> FALSE, value |-> <<>>]]

\* lines 479-483: the guest rows in the order of review, those with a phone
\* left out when the filter is checked
mobile_order(gs, f) ==
    sort_values([ i \in 1..Len(gs) |-> gs[i].name ],
                [ i \in 1..Len(gs) |-> RatInt(gs[i].best_score) ],
                { i \in 1..Len(gs) : f => strip(gs[i].phone) = <<>> })

\* widgets as a run first renders them
FreshWidgets == [pos |-> 1, entry |-> NoEntry]

\* the widgets of the page shown: the position of the radio and the entries
ShownWidgets ==
    IF options = <<>> THEN FreshWidgets
    ELSE [pos |-> CHOOSE k \in 1..Len(options) : options[k] = choice,
          entry |-> entry]

\* norm_name of the guest the page shows
shown_norm_name ==
    guests[sort_values([ i \in 1..Len(guests) |-> guests[i].name ],
                       [ i \in 1..Len(guests) |-> RatInt(guests[i].best_score) ],
                       { i \in 1..Len(guests) :
                             filter_no => strip(guests[i].phone) = <<>> })[idx + 1]
          ].norm_name

\* One script run of the mobile page (lines 474-587) on the
\* guest table gs, with st.session_state.idx = i and the filter checkbox f.
\* mobile_controls sets idx to 0 whenever the filter is checked.  The
\* widgets are keyed by idx: under the keys of the page shown before they
\* are one of `same`, under other keys they are fresh.  For a guest of the
\* norm_name shown before, the run renders the same options again (the
\* contact table is the same).
mobile_run(gs, i, f, same) ==
    \E j \in { IF f THEN 0 ELSE i } :
    \E df \in { mobile_order(gs, f) } :
       /\ guests' = gs
       /\ idx' = j
       /\ filter_no' = f
       /\ IF j >= Len(df)
          THEN /\ options' = <<>>
               /\ choice' = NoMatch
               /\ entry' = NoEntry
               /\ can_save' = FALSE
               /\ pc' = "done"
          ELSE \E opts \in
                    { IF pc = "review" /\ gs[df[j + 1]].norm_name = shown_norm_name
                      THEN options
                      ELSE create_radio_options_mobile(
                               render_match_selection_mobile(
                                   gs[df[j + 1]].norm_name,
                                   contact_names, contacts_norm_name),
                               contact_phones) } :
               \E w \in (IF j = idx /\ pc = "review" THEN same ELSE {FreshWidgets}) :
               \E ch \in { IF w.pos <= Len(opts) THEN opts[w.pos] ELSE opts[1] } :
               \E en \in { [manual |-> IF ch.kind = "manual"
                                       THEN w.entry.manual ELSE <<>>,
                            search |-> IF ch.kind = "search"
                                       THEN w.entry.search ELSE 0] } :
                  /\ options' = opts
                  /\ choice' = ch
                  /\ entry' = en
                  /\ can_save' = mobile_save_state(ch, en, contact_phones).can_save
                  /\ pc' = "review"

\* what the mobile page leaves alone
MobileUnchanged ==
    UNCHANGED <<guest_name, guest_norm_name, op, args, ret, calls,
                contact_names, contact_phones, contacts_norm_name,
                contacts_columns, auth_vars, sheet_vars>>

\* mobile_file_upload (lines 321-332): load_excel on both files, best_score
\* for every guest, upload_confirmed, and the rerun that shows the first
\* guest.  When compute_best_scores raises, the upload page stays.
MobileConfirmUpload ==
    /\ pc = "upload"
    /\ \E gt \in GuestTables :
       \E names \in { [ i \in 1..Len(contact_names) |-> strip(contact_names[i]) ] } :
       \E norms \in { [ i \in 1..Len(names) |-> normalize(names[i]) ] } :
       \E gs \in { load_guests(gt) } :
       \E best \in { [ i \in 1..Len(gs) |->
                         compute_best_scores(gs[i].norm_name, norms) ] } :
          IF \E i \in 1..Len(gs) : best[i].kind = "raise"
          THEN /\ guests' = gs
               /\ event' = "upload_failed"
               /\ LoadContacts
               /\ UNCHANGED <<pc, idx, can_save, options, choice, entry, filter_no>>
          ELSE /\ event' = "upload"
               /\ pc' = "loaded"
               /\ guests' = [ i \in 1..Len(gs) |->
                                [name |-> gs[i].name,
                                 norm_name |-> gs[i].norm_name,
                                 phone |-> gs[i].phone,
                                 best_score |-> best[i].value] ]
               /\ LoadContacts
               /\ UNCHANGED <<idx, can_save, options, choice, entry, filter_no>>
    /\ UNCHANGED <<guest_name, guest_norm_name, op, args, ret, calls,
                   auth_vars, sheet_vars>>

\* the first run of the page after the upload (st.rerun() of line 332)
MobileFirstRun ==
    /\ pc = "loaded"
    /\ mobile_run(guests, idx, filter_no, {FreshWidgets})
    /\ event' = "shown"
    /\ MobileUnchanged

\* the user checks or unchecks the filter (on the page or on the completion
\* screen)
ToggleFilter ==
    /\ pc \in {"review", "done"}
    /\ mobile_run(guests, idx, ~filter_no, {FreshWidgets, ShownWidgets})
    /\ event' = "filter"
    /\ MobileUnchanged

\* the user selects another option of the radio
MobileSelect ==
    /\ pc = "review"
    /\ \E k \in 1..Len(options) :
          /\ options[k] # choice
          /\ mobile_run(guests, idx, filter_no, {[pos |-> k, entry |-> NoEntry]})
    /\ event' = "select"
    /\ MobileUnchanged

\* the user types a phone into the manual input
MobileManual ==
    /\ pc = "review"
    /\ choice.kind = "manual"
    /\ \E text \in ManualEntries :
          /\ text # entry.manual
          /\ mobile_run(guests, idx, filter_no,
                        {[pos |-> ShownWidgets.pos,
                          entry |-> [manual |-> text, search |-> 0]]})
    /\ event' = "manual"
    /\ MobileUnchanged

\* the user searches the contacts and picks a result
MobileSearch ==
    /\ pc = "review"
    /\ choice.kind = "search"
    /\ \E row \in 1..Len(contact_names) :
          /\ row # entry.search
          /\ mobile_run(guests, idx, filter_no,
                        {[pos |-> ShownWidgets.pos,
                          entry |-> [manual |-> <<>>, search |-> row]]})
    /\ event' = "search"
    /\ MobileUnchanged

\* the guest row the page shows
MobileCurrent == mobile_order(guests, filter_no)[idx + 1]

\* the user presses "next" (enabled when can_save): lines 589-596, then the
\* run the rerun starts
MobileNext ==
    /\ pc = "review"
    /\ can_save
    /\ \E st \in { mobile_save_state(choice, entry, contact_phones) } :
       \E formatted_phone \in { IF st.save_value.ok /\ st.save_value.value # <<>>
                                THEN format_phone(st.save_value.value) ELSE <<>> } :
          mobile_run(set_phone(guests, MobileCurrent, formatted_phone),
                     idx + 1, filter_no, {FreshWidgets, ShownWidgets})
    /\ event' = "next"
    /\ MobileUnchanged

\* the user presses "back" (disabled when idx is 0): lines 567-569
MobileBack ==
    /\ pc = "review"
    /\ idx > 0
    /\ mobile_run(guests, Max(0, idx - 1), filter_no, {FreshWidgets, ShownWidgets})
    /\ event' = "back"
    /\ MobileUnchanged

NextMobile ==
    \/ MobileConfirmUpload
    \/ MobileFirstRun
    \/ ToggleFilter
    \/ MobileSelect
    \/ MobileManual
    \/ MobileSearch
    \/ MobileNext
    \/ MobileBack

SpecMobile == InitReview /\ [][NextMobile]_vars

-----------------------------------------------------------------------------
(* auth_flow of app.py: phone, one-time code, verification *)

CODE_TTL_SECONDS == 300
MAX_AUTH_ATTEMPTS == 5

\* the times the clock advances by, the latest time and the most wrong
\* entries of the model
ClockSteps == {150, 151}
MaxNow == 700
MaxWrong == 7

\* the codes secrets.choice can draw, the texts the user types
Code_1234 == <<"1", "2", "3", "4">>
Code_0007 == <<"0", "0", "0", "7">>
Codes == {Code_1234, Code_0007}
CodeEntries == Codes \cup {<<>>}
PhoneEntries == {Ph_cohen_yossi, Ph_invalid, <<>>}

\* the outcomes of requests.post: a status code, or an exception
Responses == {"200", "500", "exception"}

\* send_code: False without a valid configuration, on an exception and on a
\* status other than 200
send_code(config_valid, response) ==
    IF ~config_valid THEN FALSE
    ELSE IF response = "exception" THEN FALSE
    ELSE response = "200"

\* a check of the code's age that never fails
code_never_expired(t, ts) == FALSE

\* expired = (time.time() - st.session_state.code_ts) > CODE_TTL_SECONDS
code_expired(t, ts) == (t - ts) > CODE_TTL_SECONDS

\* what auth_flow leaves alone
AuthUnchanged ==
    UNCHANGED <<guest_name, contact_names, contact_phones, contacts_columns,
                guest_norm_name, contacts_norm_name, pc, ret, calls,
                guests, idx, can_save, options, choice, entry,
                mobile_vars, sheet_vars>>

\* time passes
Tick ==
    /\ ~auth_ok
    /\ \E d \in ClockSteps :
          /\ now + d <= MaxNow
          /\ now' = now + d
    /\ UNCHANGED <<auth_state, auth_page, auth_ok, auth_code, code_ts,
                   auth_attempts, sent, issued, op, args, event>>
    /\ AuthUnchanged

\* The user acts on a page that auth_state no longer selects: the run
\* renders the page of auth_state, and the widget acted on is not in it.
StalePage ==
    /\ ~auth_ok
    /\ auth_page # auth_state
    /\ auth_page' = auth_state
    /\ op' = "rerun"
    /\ args' = <<>>
    /\ UNCHANGED <<auth_state, auth_ok, auth_code, code_ts, auth_attempts, now,
                   sent, issued, event>>
    /\ AuthUnchanged

\* the "send code" button of the phone page (lines 185-198)
SendCode ==
    /\ ~auth_ok
    /\ auth_page = "phone"
    /\ auth_state = "phone"
    /\ \E phone \in PhoneEntries, code \in Codes,
          config_valid \in BOOLEAN, response \in Responses :
          /\ op' = "send"
          /\ args' = <<phone, code>>
          /\ IF ~normalize_phone_basic(phone).ok
             THEN /\ event' = "invalid_phone"
                  /\ UNCHANGED <<auth_state, auth_page, auth_code, code_ts,
                                 sent, issued>>
             ELSE /\ auth_code' = code
                  /\ code_ts' = now
                  /\ auth_state' = "code"
                  /\ issued' = [code |-> code, at |-> now, wrong |-> 0]
                  /\ IF send_code(config_valid, response)
                     THEN /\ sent' = "ok"
                          /\ event' = "sent"
                          /\ auth_page' = "code"
                     ELSE /\ sent' = "failed"
                          /\ event' = "not_sent"
                          /\ UNCHANGED auth_page
    /\ UNCHANGED <<auth_ok, auth_attempts, now>>
    /\ AuthUnchanged

\* the "back" button of the code page (lines 210-212)
AuthBack ==
    /\ ~auth_ok
    /\ auth_page = "code"
    /\ auth_state = "code"
    /\ auth_state' = "phone"
    /\ auth_page' = "phone"
    /\ op' = "back"
    /\ args' = <<>>
    /\ event' = "back"
    /\ UNCHANGED <<auth_ok, auth_code, code_ts, auth_attempts, now, sent, issued>>
    /\ AuthUnchanged

\* the "verify" button of the code page (lines 214-230)
VerifyCode ==
    /\ ~auth_ok
    /\ auth_page = "code"
    /\ auth_state = "code"
    /\ \E text \in CodeEntries :
          /\ op' = "verify"
          /\ args' = <<text>>
          /\ IF code_expired(now, code_ts)
             THEN /\ event' = "expired"
                  /\ UNCHANGED <<auth_state, auth_page, auth_ok, auth_attempts,
                                 issued>>
             ELSE IF text = auth_code
             THEN /\ auth_ok' = TRUE
                  /\ auth_page' = "app"
                  /\ event' = "verified"
                  /\ UNCHANGED <<auth_state, auth_attempts, issued>>
             ELSE /\ auth_attempts < MaxWrong
                  /\ auth_attempts' = auth_attempts + 1
                  /\ issued' = [issued EXCEPT !.wrong = @ + 1]
                  /\ IF auth_attempts + 1 >= MAX_AUTH_ATTEMPTS
                     THEN /\ auth_state' = "phone"
                          /\ auth_page' = "phone"
                          /\ event' = "locked"
                     ELSE /\ event' = "wrong"
                          /\ UNCHANGED <<auth_state, auth_page>>
                  /\ UNCHANGED auth_ok
    /\ UNCHANGED <<auth_code, code_ts, now, sent>>
    /\ AuthUnchanged

InitAuth ==
    /\ InitCore(<<>>, <<>>)
    /\ InitReviewVars
    /\ InitAuthVars
    /\ sheet = <<>>

NextAuth ==
    \/ Tick
    \/ StalePage
    \/ SendCode
    \/ AuthBack
    \/ VerifyCode

SpecAuth == InitAuth /\ [][NextAuth]_vars

-----------------------------------------------------------------------------
(* The allow-list: whatsapp_utils.py, backup/src/webhook_server.py and the *)
(* authorization check of logic.py.  A sheet is a sequence of rows, a row a *)
(* sequence of cell texts; the first row is the header.                    *)

H_shem == <<"shin", "mem_sofit">>
H_telefon == <<"tet", "lamed", "pe", "vav", "nun_sofit">>
SheetHeader == <<H_shem, H_telefon>>

RECURSIVE strip_zeros(_)
\* str(int(s)) for a text of digits
strip_zeros(s) ==
    IF Len(s) > 1 /\ Head(s) = "0" THEN strip_zeros(Tail(s)) ELSE s

\* gspread's numericise followed by str(): get_all_records turns a cell
\* that int() accepts into a number, so its leading zeros are lost
numericise(cell) ==
    IF cell # <<>> /\ \A i \in 1..Len(cell) : cell[i] \in Digits
    THEN strip_zeros(cell) ELSE cell

\* row.get(key, default) of a record of sheet.get_all_records(): the cell
\* under the header cell equal to key
record_get(header, row, key, default) ==
    IF \E c \in 1..Len(header) : header[c] = key /\ c <= Len(row)
    THEN numericise(row[CHOOSE c \in 1..Len(header) :
                           /\ header[c] = key /\ c <= Len(row)
                           /\ \A d \in 1..Len(header) :
                                 (header[d] = key /\ d <= Len(row)) => d <= c])
    ELSE default

\* sheet.get_all_records(): the rows under the header row, by header cell
get_all_records(sh) ==
    IF sh = <<>> THEN <<>>
    ELSE [ i \in 1..(Len(sh) - 1) |->
             [name |-> record_get(sh[1], sh[i + 1], H_shem, <<>>),
              phone |-> record_get(sh[1], sh[i + 1], H_telefon, <<>>)] ]

\* sheet.update_cell(row, col, value), rows and columns from 1
update_cell(sh, row, col, value) ==
    IF row \in 1..Len(sh)
    THEN [sh EXCEPT ![row] =
             [ c \in 1..Max(Len(@), col) |->
                 IF c = col THEN value ELSE IF c <= Len(@) THEN @[c] ELSE <<>> ]]
    ELSE sh

\* sheet.delete_rows(row), rows from 1
delete_rows(sh, row) ==
    [ i \in 1..(Len(sh) - 1) |-> IF i < row THEN sh[i] ELSE sh[i + 1] ]

RECURSIVE add_loop(_, _, _, _, _)
\* the loop of add_user_to_excel from record i on, then the append
add_loop(sh, existing, i, name, phone) ==
    IF i > Len(existing) THEN Append(sh, <<name, phone>>)
    ELSE IF existing[i].name = name
    THEN update_cell(sh, i + 1, 2, phone)
    ELSE IF /\ only_digits(phone) = only_digits(existing[i].phone)
            /\ only_digits(phone) # <<>>
    THEN sh
    ELSE add_loop(sh, existing, i + 1, name, phone)

\* add_user_to_excel: the sheet after the call; an exception of the sheet
\* API (fails) is caught and printed
add_user_to_excel(sh, name, phone, fails) ==
    IF fails THEN sh
    ELSE add_loop(sh, get_all_records(sh), 1, name, phone)

\* remove_user_from_excel: the sheet after the call; the first row of
\* sheet.get_all_values() whose first cell is name is deleted
remove_user_from_excel(sh, name, fails) ==
    IF fails THEN sh
    ELSE IF \E i \in 1..Len(sh) : sh[i] # <<>> /\ sh[i][1] = name
    THEN delete_rows(sh, CHOOSE i \in 1..Len(sh) :
                            /\ sh[i] # <<>> /\ sh[i][1] = name
                            /\ \A k \in 1..(i - 1) : sh[k] = <<>> \/ sh[k][1] # name)
    ELSE sh

W_add == <<"a", "d", "d">>
W_Add == <<"A", "d", "d">>
W_remove == <<"r", "e", "m", "o", "v", "e">>
W_delete == <<"d", "e", "l", "e", "t", "e">>
W_hosef == <<"he", "vav", "samekh", "pe_sofit">>
W_haser == <<"he", "samekh", "resh">>
W_mehak == <<"mem", "het", "qof">>
W_hello == <<"h", "e", "l", "l", "o">>

\* the text that 0\d{8,9} matches at the start of a word (<<>>: no match)
match_0_8_9(w) ==
    IF /\ Len(w) >= 9 /\ w[1] = "0"
       /\ \A i \in 2..9 : w[i] \in Digits
    THEN IF Len(w) >= 10 /\ w[10] \in Digits
         THEN SubSeq(w, 1, 10) ELSE SubSeq(w, 1, 9)
    ELSE <<>>

\* the text that \d{10} matches at the start of a word
match_10(w) ==
    IF Len(w) >= 10 /\ \A i \in 1..10 : w[i] \in Digits
    THEN SubSeq(w, 1, 10) ELSE <<>>

\* re.search of keyword \s+ (.+?) \s+ phone in the words of a message:
\* the first keyword that a phone follows after at least one word, the
\* fewest words taken as the name
search_add(words, keyword, wide) ==
    LET phone_at(j) == IF wide THEN match_10(words[j]) ELSE match_0_8_9(words[j])
        found(i, j) == /\ lower_text(words[i]) = keyword
                       /\ j >= i + 2
                       /\ phone_at(j) # <<>>
        hits == { ij \in (1..Len(words)) \X (1..Len(words)) : found(ij[1], ij[2]) }
    IN IF hits = {} THEN [action |-> "none"]
       ELSE LET ij == CHOOSE h \in hits :
                         \A g \in hits :
                            h[1] < g[1] \/ (h[1] = g[1] /\ h[2] <= g[2])
            IN [action |-> "add",
                name |-> strip(Join(SubSeq(words, ij[1] + 1, ij[2] - 1))),
                phone |-> strip(phone_at(ij[2]))]

\* re.search of keyword \s+ (.+): the words after the first keyword
search_remove(words, keyword) ==
    LET hits == { i \in 1..(Len(words) - 1) : lower_text(words[i]) = keyword }
    IN IF hits = {} THEN [action |-> "none"]
       ELSE LET i == CHOOSE h \in hits : \A g \in hits : h <= g
            IN [action |-> "remove",
                name |-> strip(Join(SubSeq(words, i + 1, Len(words))))]

RECURSIVE first_match(_)
\* the first of the results that is a match
first_match(results) ==
    IF results = <<>> THEN [action |-> "none"]
    ELSE IF Head(results).action # "none" THEN Head(results)
    ELSE first_match(Tail(results))

\* parse_permission_message for a message whose keywords and phones are
\* whole words, on the words of the message; action "none" for None
parse_permission_message(message) ==
    IF message = <<>> THEN [action |-> "none"]
    ELSE LET words == py_split(strip(message))
         IN first_match(<< search_add(words, W_hosef, FALSE),
                           search_add(words, W_add, FALSE),
                           search_add(words, W_hosef, TRUE),
                           search_add(words, W_add, TRUE),
                           search_remove(words, W_haser),
                           search_remove(words, W_remove),
                           search_remove(words, W_mehak),
                           search_remove(words, W_delete) >>)

\* a request without a JSON body
NoJson == [json |-> FALSE, text |-> <<>>]

\* webhook(): the sheet after the request and the JSON answered
webhook(sh, request, fails) ==
    IF ~request.json
    THEN [sheet |-> sh, response |-> [status |-> "error", action |-> "none"]]
    ELSE IF request.text = <<>>
    THEN [sheet |-> sh, response |-> [status |-> "ignored", action |-> "none"]]
    ELSE LET parsed_result == parse_permission_message(request.text)
         IN IF parsed_result.action = "add"
            THEN [sheet |-> add_user_to_excel(sh, parsed_result.name,
                                              parsed_result.phone, fails),
                  response |-> [status |-> "success", action |-> "add",
                                parsed |-> parsed_result]]
            ELSE IF parsed_result.action = "remove"
            THEN [sheet |-> remove_user_from_excel(sh, parsed_result.name, fails),
                  response |-> [status |-> "success", action |-> "remove",
                                parsed |-> parsed_result]]
            ELSE [sheet |-> sh,
                  response |-> [status |-> "ignored", action |-> "none"]]

\* _find_phone_col: the first header cell among the phone titles, else 1
\* (columns from 0)
PhoneTitles ==
    { H_telefon, <<"p", "h", "o", "n", "e">>,
      <<"mem", "samekh", "pe", "resh">>,
      <<"pe", "lamed", "alef", "pe", "vav", "nun_sofit">>,
      <<"mem", "samekh", "pe", "resh", " ", "pe", "lamed", "alef", "pe", "vav",
        "nun_sofit">> }

_find_phone_col(header) ==
    IF \E i \in 1..Len(header) : lower_text(strip(header[i])) \in PhoneTitles
    THEN (CHOOSE i \in 1..Len(header) :
             /\ lower_text(strip(header[i])) \in PhoneTitles
             /\ \A k \in 1..(i - 1) : lower_text(strip(header[k])) \notin PhoneTitles)
         - 1
    ELSE 1

NoSet == [loaded |-> FALSE, phones |-> {}]
LoadedSet(S) == [loaded |-> TRUE, phones |-> S]

\* _load_allowed_from_sheets: None (NoSet) without SPREADSHEET_ID and on an
\* exception, else the set of the digits of the phone cells
_load_allowed_from_sheets(configured, fails, rows) ==
    IF ~configured THEN NoSet
    ELSE IF fails THEN NoSet
    ELSE IF Len(rows) < 2 THEN LoadedSet({})
    ELSE LoadedSet({ only_digits(rows[r][_find_phone_col(rows[1]) + 1]) :
                       r \in { q \in 2..Len(rows) :
                                 /\ Len(rows[q]) > _find_phone_col(rows[1])
                                 /\ only_digits(rows[q][_find_phone_col(rows[1]) + 1])
                                       # <<>> } })

\* the local file: missing, unreadable, without a phone column, or with
\* the cells of its first phone column
NoFile == [exists |-> FALSE, readable |-> FALSE, cols |-> FALSE, cells |-> <<>>]
BadFile == [exists |-> TRUE, readable |-> FALSE, cols |-> FALSE, cells |-> <<>>]
NoColFile == [exists |-> TRUE, readable |-> TRUE, cols |-> FALSE, cells |-> <<>>]
ExcelFile(cells) ==
    [exists |-> TRUE, readable |-> TRUE, cols |-> TRUE, cells |-> cells]

\* _load_allowed_from_excel
_load_allowed_from_excel(file) ==
    IF ~file.exists THEN {}
    ELSE IF ~file.readable THEN {}
    ELSE IF ~file.cols THEN {}
    ELSE { only_digits(file.cells[i]) :
             i \in { k \in 1..Len(file.cells) : only_digits(file.cells[k]) # <<>> } }

\* is_user_authorized with the backup taken for an empty set as well
is_user_authorized_or_backup(phone, configured, fails, rows, file) ==
    LET allowed == _load_allowed_from_sheets(configured, fails, rows)
    IN only_digits(phone) \in
          (IF allowed.loaded /\ allowed.phones # {} THEN allowed.phones
           ELSE _load_allowed_from_excel(file))

\* logic.is_user_authorized
is_user_authorized(phone, configured, fails, rows, file) ==
    LET allowed == _load_allowed_from_sheets(configured, fails, rows)
    IN only_digits(phone) \in
          (IF allowed.loaded THEN allowed.phones
           ELSE _load_allowed_from_excel(file))

\* the rows, names, phones, messages and files of the model
MaxDataRows == 2
Ph_plain == <<"0", "5", "4", "1", "1", "1", "1", "1", "1", "1">>
SheetNames == {N_dan, N_ardi}
SheetPhones == {Ph_cohen_yossi, Ph_dan}
CallNames == SheetNames \cup {H_shem}
CallPhones == {Ph_cohen_yossi, Ph_plain}

\* the number of rows of a sheet that are not its header row
data_row_count(sh) ==
    IF sh # <<>> /\ sh[1] = SheetHeader THEN Len(sh) - 1 ELSE Len(sh)

DataRows == { <<n, p>> : n \in SheetNames, p \in SheetPhones }

\* no two data rows with one name, none with the digits of one phone
DuplicateFree(sh) ==
    \A i, j \in 2..Len(sh) :
       i # j => /\ sh[i][1] # sh[j][1]
                /\ only_digits(sh[i][2]) = <<>>
                   \/ only_digits(sh[i][2]) # only_digits(sh[j][2])

InitSheets ==
    { sh \in {<<SheetHeader>>}
             \cup { <<SheetHeader, r>> : r \in DataRows }
             \cup { <<SheetHeader, r, q>> : r \in DataRows, q \in DataRows } :
        DuplicateFree(sh) }

Messages ==
    { Join(<<W_add, N_dan, Ph_cohen_yossi>>),
      Join(<<W_Add, N_ardi, Ph_plain>>),
      Join(<<W_hosef, N_ardi, Ph_cohen_yossi>>),
      Join(<<W_remove, N_dan>>),
      Join(<<W_haser, H_shem>>),
      Join(<<W_add, N_dan>>),
      W_hello,
      <<>> }

Requests == {NoJson} \cup { [json |-> TRUE, text |-> m] : m \in Messages }

Files == { NoFile, BadFile, NoColFile, ExcelFile(<<Ph_dan, <<"n", "a", "n">>>>) }

AuthPhones == { Ph_plain, <<"-">> }

\* what the allow-list operations leave alone
SheetUnchanged ==
    UNCHANGED <<guest_name, contact_names, contact_phones, contacts_columns,
                guest_norm_name, contacts_norm_name, pc, calls,
                review_vars, mobile_vars, auth_vars>>

AddUser ==
    /\ \E name \in SheetNames, phone \in CallPhones, fails \in BOOLEAN :
          /\ data_row_count(add_user_to_excel(sheet, name, phone, fails))
                <= MaxDataRows
          /\ sheet' = add_user_to_excel(sheet, name, phone, fails)
          /\ op' = "add_user_to_excel"
          /\ args' = <<name, phone, fails>>
    /\ ret' = None
    /\ SheetUnchanged

RemoveUser ==
    /\ \E name \in CallNames, fails \in BOOLEAN :
          /\ sheet' = remove_user_from_excel(sheet, name, fails)
          /\ op' = "remove_user_from_excel"
          /\ args' = <<name, fails>>
    /\ ret' = None
    /\ SheetUnchanged

Webhook ==
    /\ \E request \in Requests, fails \in BOOLEAN :
       \E r \in { webhook(sheet, request, fails) } :
          /\ data_row_count(r.sheet) <= MaxDataRows
          /\ sheet' = r.sheet
          /\ op' = "webhook"
          /\ args' = <<request, fails>>
          /\ ret' = Ok(r.response)
    /\ SheetUnchanged

IsUserAuthorized ==
    /\ \E phone \in AuthPhones, configured \in BOOLEAN, fails \in BOOLEAN,
          file \in Files :
          /\ op' = "is_user_authorized"
          /\ args' = <<phone, configured, fails, file>>
          /\ ret' = Ok(is_user_authorized(phone, configured, fails, sheet, file))
    /\ UNCHANGED sheet
    /\ SheetUnchanged

InitSheet ==
    /\ InitCore(<<>>, <<>>)
    /\ InitReviewVars
    /\ InitAuthVars
    /\ sheet \in InitSheets

NextSheet ==
    \/ AddUser
    \/ RemoveUser
    \/ Webhook
    \/ IsUserAuthorized

SpecSheet == InitSheet /\ [][NextSheet]_vars

-----------------------------------------------------------------------------
(* Properties *)

\* the score column of the loaded contact table for the loaded guest
Scores == score_column(guest_norm_name, contacts_norm_name, 1, <<>>)

\* the rows a top_matches call returned
Rows == ret.value

AtLeast(score, th) == RatLE(RatInt(th), score)

\* C1: full_score returns an integer between 0 and 100 for every pair of
\* normalized names.
C1_ScoreIsInteger0To100 ==
    op = "full_score" =>
        /\ IsInt(ret.value)
        /\ RatLE(RatInt(0), ret.value)
        /\ RatLE(ret.value, RatInt(100))

\* C2: two non-empty normalized names that are equal, or whose cleaned token
\* lists are equal as sequences, score exactly 100.
C2_AutoMatch ==
    ( /\ op = "full_score"
      /\ args[1] # <<>> /\ args[2] # <<>>
      /\ (args[1] = args[2] \/ tokens(args[1]) = tokens(args[2])) )
    => ret.value = RatInt(100)

C2_Witness ==
    /\ op = "full_score"
    /\ args[1] # <<>> /\ args[2] # <<>>
    /\ args[1] # args[2]
    /\ tokens(args[1]) = tokens(args[2])
    /\ ret.value = RatInt(100)

\* C3: full_score is 0 whenever either argument is the empty string.
C3_EmptyScoresZero ==
    (op = "full_score" /\ (args[1] = <<>> \/ args[2] = <<>>))
    => ret.value = RatInt(0)

C3_Witness ==
    /\ op = "full_score"
    /\ args[1] # <<>> /\ args[2] = <<>>
    /\ ret.value = RatInt(0)

\* C4 as stated: a contact with the guest's cleaned tokens in another order
\* scores 100 and is the first candidate of top_matches with score 100.
Reordered(g_t, c_t) ==
    /\ g_t # c_t
    /\ Len(g_t) = Len(c_t)
    /\ \A t \in ToSet(g_t) \cup ToSet(c_t) :
          Cardinality({ i \in 1..Len(g_t) : g_t[i] = t })
            = Cardinality({ i \in 1..Len(c_t) : c_t[i] = t })

C5_SuffixNoiseDropped ==
    \A w \in SUFFIX_TOKENS :
        ( /\ op = "full_score"
          /\ contact_names[1] # <<>>
          /\ guest_name = contact_names[1] \o <<" ">> \o w )
        => /\ tokens(args[1]) = tokens(args[2])
           /\ ret.value = RatInt(100)

\* C6: normalize(normalize(x)) = normalize(x) for every x.
C6_NormalizeIdempotent ==
    op = "normalize" => normalize(ret.value) = ret.value

\* C7: when some contact scores exactly 100, every candidate top_matches
\* returns has score >= 90.
C7_PerfectTier ==
    ( /\ op = "top_matches"
      /\ ret.kind = "ok"
      /\ \E i \in 1..Len(Scores) : Scores[i] = RatInt(100) )
    => \A k \in 1..Len(Rows) : AtLeast(Rows[k].score, 90)

C9_EmptyGuest ==
    (op = "top_matches" /\ args[1] = <<>>)
    => /\ ret.kind = "ok"
       /\ Rows = <<>>
       /\ ret.scored = 0

C9_Witness ==
    /\ op = "top_matches"
    /\ args[1] = <<>>
    /\ Len(contacts_norm_name) >= 2
    /\ ret.kind = "ok"
    /\ Rows = <<>>

\* C10: compute_best_scores yields the maximum full_score over the contacts,
\* and 0 when the guest name is empty or the contact table has no rows; it
\* does not raise.
C10_BestScore ==
    op = "compute_best_scores" =>
        /\ ret.kind = "ok"
        /\ RatInt(ret.value) =
              IF guest_norm_name = <<>> \/ contacts_norm_name = <<>>
              THEN RatInt(0) ELSE RatMaxOf(ToSet(Scores))

\* C11: top_matches with a non-empty guest name and a contact table of zero
\* rows returns an empty candidate list and does not raise.
C11_TopMatchesTotal ==
    (op = "top_matches" /\ args[1] # <<>> /\ contacts_norm_name = <<>>)
    => /\ ret.kind = "ok"
       /\ Rows = <<>>

\* C12: the candidates of top_matches are at most 3, in the order of score
\* descending and, for equal scores, of contact name ascending, and no
\* contact left out (qualifying or not) scores higher than a returned one.
C12_OrderedTop3 ==
    (op = "top_matches" /\ ret.kind = "ok") =>
        /\ Len(Rows) <= 3
        /\ \A k \in 1..(Len(Rows) - 1) :
              \/ RatLT(Rows[k + 1].score, Rows[k].score)
              \/ /\ Rows[k].score = Rows[k + 1].score
                 /\ \/ str_lt(contact_names[Rows[k].row], contact_names[Rows[k + 1].row])
                    \/ contact_names[Rows[k].row] = contact_names[Rows[k + 1].row]
        /\ \A i \in 1..Len(Scores) :
              (\A m \in 1..Len(Rows) : Rows[m].row # i)
              => \A k \in 1..Len(Rows) : RatLE(Scores[i], Rows[k].score)

\* four contacts qualify, three are returned, and two of them tie on the
\* score with the later table row first
C12_Witness ==
    /\ op = "top_matches"
    /\ ret.kind = "ok"
    /\ Len(Rows) = 3
    /\ Cardinality({ i \in 1..Len(Scores) : AtLeast(Scores[i], 70) }) = 4
    /\ \E k \in 1..2 :
          /\ Rows[k].score = Rows[k + 1].score
          /\ Rows[k].row > Rows[k + 1].row

\* C15: for two non-empty normalized names full_score(a, b) and
\* full_score(b, a) differ by at most 5 points.
C15_NearSymmetric ==
    (op = "full_score" /\ args[1] # <<>> /\ args[2] # <<>>) =>
        LET a == ret.value
            b == full_score(args[2], args[1])
        IN /\ a.num * b.den <= (b.num + 5 * b.den) * a.den
           /\ b.num * a.den <= (a.num + 5 * a.den) * b.den

\* C16: for two non-empty token lists the score is the blend with the
\* penalty min(count)/max(count) when the counts differ by 2 or more and 1
\* otherwise; with counts differing by 2 or more it is at most
\* round(100 * min(count)/max(count)); and "dan" against "dan michael cohen
\* levy" scores lower than "dan cohen" against "dan cohen".
C16_GapPenalty ==
    ( /\ op = "full_score"
      /\ tokens(args[1]) # <<>> /\ tokens(args[2]) # <<>>
      /\ tokens(args[1]) # tokens(args[2]) /\ strip(args[1]) # strip(args[2]) )
    => LET g_t == tokens(args[1])
           c_t == tokens(args[2])
           lo == Min(Len(g_t), Len(c_t))
           hi == Max(Len(g_t), Len(c_t))
       IN /\ ret.value =
                RatInt(blend(token_set_ratio(Join(g_t), Join(c_t)),
                             ratio(g_t[1], c_t[1]),
                             fuzzy_jaccard(g_t, c_t),
                             IF hi - lo >= 2 THEN <<lo, hi>> ELSE <<1, 1>>))
          /\ hi - lo >= 2 => RatLE(ret.value, RatInt(py_round(100 * lo, hi)))
          /\ args = <<N_dan, N_dan_michael_cohen_levy>>
                => RatLT(ret.value, full_score(N_dan_cohen, N_dan_cohen))

\* the cleaning of one token with at most one rule applied
CleanOneRule(tok) ==
    IF tok \in SUFFIX_TOKENS THEN <<>>
    ELSE IF tok # <<>> /\ Head(tok) = "v" /\ Len(tok) > 2 THEN Tail(tok)
    ELSE IF Len(tok) >= 4 /\ tok[Len(tok)] = "i" THEN SubSeq(tok, 1, Len(tok) - 1)
    ELSE tok

\* C17: _tokens cleans every token with at most one rule, in priority order
\* (noise suffix, leading "v" when longer than 2, trailing "i" when 4 or
\* longer): a token with the leading "v" and the trailing "i" loses only
\* the "v".
C17_OneRulePerToken ==
    op = "tokens" =>
        LET raw == re_split(args[1], 1, <<>>, <<>>)
        IN ret.value =
             SelectSeq([ i \in 1..Len(raw) |-> CleanOneRule(raw[i]) ],
                       LAMBDA t : t # <<>> /\ t \notin GENERIC_TOKENS)

\* C18: a word of GENERIC_TOKENS in a raw name leaves no token: the tokens
\* of normalize(word + " " + base) are the tokens of normalize(base), in
\* the same order.
C18_GenericWordsDropped ==
    \A w \in GENERIC_TOKENS :
        ( /\ op = "tokens"
          /\ contact_names # <<>>
          /\ contact_names[1] # <<>>
          /\ guest_name = w \o <<" ">> \o contact_names[1] )
        => ret.value = tokens(contacts_norm_name[1])

\* C19: the value of _fuzzy_jaccard is within [0, 1], and 1 for two empty
\* token lists.
C19_JaccardInUnitInterval ==
    op = "fuzzy_jaccard" =>
        /\ RatLE(RatInt(0), ret.value)
        /\ RatLE(ret.value, RatInt(1))
        /\ (args[1] = <<>> /\ args[2] = <<>>) => ret.value = RatInt(1)

\* C20: the matching of _fuzzy_jaccard is one-to-one and greedy: the guest
\* tokens are taken in order, each is matched with the first contact token
\* (by position) that no earlier guest token consumed and that is fuzzy-equal
\* to it, no contact token is consumed twice, and the match count is at most
\* min(|G|, |C|).
C20_GreedyOneToOne ==
    op = "fuzzy_jaccard" =>
        LET gs == args[1]
            cs == args[2]
            pairs == ret.pairs
            taken_before(i) == { pairs[k][2] : k \in { m \in 1..Len(pairs) : pairs[m][1] < i } }
            free(i) == { j \in 1..Len(cs) : j \notin taken_before(i) /\ fuzzy_eq(gs[i], cs[j]) }
        IN /\ ret.matched = Len(pairs)
           /\ ret.matched <= Min(Len(gs), Len(cs))
           /\ \A k, m \in 1..Len(pairs) :
                 k < m => pairs[k][1] < pairs[m][1] /\ pairs[k][2] # pairs[m][2]
           /\ \A i \in 1..Len(gs) :
                 IF free(i) = {}
                 THEN \A k \in 1..Len(pairs) : pairs[k][1] # i
                 ELSE \E k \in 1..Len(pairs) :
                        /\ pairs[k][1] = i
                        /\ pairs[k][2] \in free(i)
                        /\ \A j \in free(i) : pairs[k][2] <= j

\* the phone cell of guest row g as load_excel left it
LoadedPhone(g) == load_phone(GuestPhoneOf(guests[g].name))

\* C13: on the review page a guest's phone changes only in a step in which
\* the user presses "next" while can_save is true; the upload (best scores,
\* first candidate list, pre-selection) leaves every phone as loaded.
C13_PhoneOnlyOnConfirmedNext ==
    [][ /\ pc = "review"
           => \A g \in 1..Len(guests) :
                 guests'[g].phone # guests[g].phone
                 => (event' = "next" /\ can_save)
        /\ event' = "upload"
           => \A g \in 1..Len(guests') :
                 guests'[g].phone = load_phone(GuestPhoneOf(guests'[g].name)) ]_vars

\* the first guest's phone was written by a confirmed "next", the second
\* guest is shown with a candidate pre-selected and its phone as loaded
C13_Witness ==
    /\ pc = "review"
    /\ event = "next"
    /\ idx = 1
    /\ choice.kind = "cand"
    /\ guests[review_order(guests)[1]].phone # LoadedPhone(review_order(guests)[1])
    /\ guests[review_order(guests)[2]].phone = LoadedPhone(review_order(guests)[2])

Offered ==
    render_match_selection(guest_norm_name, contact_names, contacts_norm_name)

\* C21: every candidate top_matches returns (perfect tier, >= 70 tier or
\* fallback tier) is among the candidates render_match_selection offers for
\* the same guest and contact table.
C21_ReviewOffersTopMatches ==
    (op = "top_matches" /\ ret.kind = "ok")
    => \A k \in 1..Len(Rows) :
          \E j \in 1..Len(Offered) : Offered[j].row = Rows[k].row

\* the contact table is as it was
ContactTableUnchanged ==
    UNCHANGED <<contact_names, contact_phones, contacts_norm_name, contacts_columns>>

C23_NextMakesProgress ==
    [][ (pc = "review" /\ filter_no /\ event' = "next")
        => \/ pc' = "done"
           \/ MobileCurrent' # MobileCurrent ]_vars

\* C24: auth_ok becomes true only in a verify step taken in the "code"
\* state, with the text entered equal to the code issued last and at most
\* CODE_TTL_SECONDS after that code was issued.
C24_AuthOnlyByVerify ==
    [][ (auth_ok' /\ ~auth_ok)
        => /\ auth_state = "code"
           /\ op' = "verify"
           /\ args'[1] = issued.code
           /\ now - issued.at <= CODE_TTL_SECONDS ]_vars

\* verified exactly CODE_TTL_SECONDS after the code was issued, after a
\* wrong entry
C24_Witness ==
    /\ auth_ok
    /\ event = "verified"
    /\ now - issued.at = CODE_TTL_SECONDS
    /\ issued.wrong > 0

\* C25: the session goes from the "phone" state to the "code" state only
\* when send_code returned True.
C25_CodeStateOnlyIfSent ==
    [][ (auth_state = "phone" /\ auth_state' = "code") => sent' = "ok" ]_vars

\* C26: a wrong entry sends the user back to the phone step exactly when it
\* is the MAX_AUTH_ATTEMPTS-th wrong entry against the code issued last,
\* and otherwise shows a remaining count in 1..MAX_AUTH_ATTEMPTS-1.
C26_SameToleranceForEveryCode ==
    [][ (op' = "verify" /\ issued'.wrong > issued.wrong)
        => /\ auth_state' = "phone" <=> issued'.wrong = MAX_AUTH_ATTEMPTS
           /\ auth_state' = "code"
              => (MAX_AUTH_ATTEMPTS - auth_attempts') \in 1..(MAX_AUTH_ATTEMPTS - 1)
      ]_vars

\* C27: starting from a sheet in which no two rows share a name or the
\* digits of a phone, a call of add_user_to_excel or remove_user_from_excel
\* leaves a sheet in which no two rows share a name and no two rows share
\* the same non-empty digits-only phone.
C27_SheetStaysDuplicateFree ==
    [][ (/\ op' \in {"add_user_to_excel", "remove_user_from_excel"}
         /\ sheet # <<>> /\ sheet[1] = SheetHeader
         /\ DuplicateFree(sheet))
        => DuplicateFree(sheet') ]_vars

\* the call remove_user_from_excel(name) is made in this step, directly or
\* by the webhook for a parsed remove message
Removes(name) ==
    \/ op' = "remove_user_from_excel" /\ args'[1] = name
    \/ /\ op' = "webhook"
       /\ ret'.value.action = "remove"
       /\ ret'.value.parsed.name = name

\* C28: remove_user_from_excel(name) deletes at most one row, and only a
\* data row whose name column equals name; the header row is never deleted.
C28_RemoveOnlyNamedDataRow ==
    [][ \A name \in CallNames :
          (/\ Removes(name)
           /\ sheet # <<>> /\ sheet[1] = SheetHeader)
          => \/ sheet' = sheet
             \/ \E i \in 2..Len(sheet) :
                   /\ sheet[i][1] = name
                   /\ sheet' = delete_rows(sheet, i) ]_vars

\* the digits of the phone cells of the data rows of the sheet
SheetDigits ==
    { only_digits(sheet[r][2]) : r \in 2..Len(sheet) } \ { <<>> }

\* the digits of the cells of the phone column of the local file
FileDigits(file) ==
    IF file.exists /\ file.readable /\ file.cols
    THEN { only_digits(file.cells[k]) : k \in 1..Len(file.cells) } \ { <<>> }
    ELSE {}

\* C29: is_user_authorized(phone) is true iff the digits of phone are in
\* the allowed set: the set of the sheet whenever its load succeeded, even
\* if it is empty, the set of the local file only when Sheets is not
\* configured or its load failed; a phone without digits is never
\* authorized.
C29_AuthorizedIffInAllowedSet ==
    op = "is_user_authorized"
    => ret.value =
          (/\ only_digits(args[1]) # <<>>
           /\ only_digits(args[1]) \in
                 (IF args[2] /\ ~args[3] THEN SheetDigits ELSE FileDigits(args[4])))

\* C29: the load from Sheets succeeded with an empty set, the local file
\* holds the phone, and the phone is not authorized.
C29_Witness ==
    /\ op = "is_user_authorized"
    /\ args[2] /\ ~args[3]
    /\ SheetDigits = {}
    /\ only_digits(args[1]) \in FileDigits(args[4])
    /\ ret.value = FALSE

\* C30: the webhook answers status "success" with action "add" only if the
\* allow-list then holds a row with the requested name and phone.
C30_SuccessOnlyIfAdded ==
    (/\ op = "webhook"
     /\ ret.value.status = "success"
     /\ ret.value.action = "add")
    => \E i \in 1..Len(sheet) :
          sheet[i] = <<ret.value.parsed.name, ret.value.parsed.phone>>

=============================================================================
